---- MODULE Spec2Model ----
(***************************************************************************)
(* Model of the synthetics trigger-and-wait engine of datadog-ci           *)
(* (src/commands/synthetics/utils.ts): the polling engine waitForResults   *)
(* with createTriggerResultMap, the execution rule resolver, the test      *)
(* lookup getTestsToTrigger, the result classifier, the composite reporter *)
(* of getReporter and retry.  Each function has its own variables and its  *)
(* own specification.                                                      *)
(*                                                                         *)
(* JavaScript strings that the code parses (test identifiers) are modelled *)
(* as sequences of one-character strings; opaque strings (result ids,      *)
(* error names) are TLA+ strings.  Time is in milliseconds.                *)
(***************************************************************************)
EXTENDS Integers, Sequences, FiniteSets, TLC

(***************************************************************************)
(* Bounds of the model.                                                    *)
(***************************************************************************)
MaxResponses == 2
MaxConfigs == 2

(***************************************************************************)
(* Program constants.                                                      *)
(***************************************************************************)
POLLING_INTERVAL == 5000

(* ERRORS enum of ./interfaces, as used by createFailingResult's callers.  *)
ERRORS == [ENDPOINT |-> "ENDPOINT", TIMEOUT |-> "TIMEOUT", TUNNEL |-> "TUNNEL"]

(***************************************************************************)
(* Values of JavaScript that have no TLA+ counterpart.                     *)
(***************************************************************************)
(* an optional value is <<>> when undefined and <<v>> when it is v *)
Undefined == <<>>
Some(v) == <<v>>
(* Math.max() of no values is -Infinity; a finite number n is Finite(n) *)
NegInfinity == [finite |-> FALSE]
Finite(n) == [finite |-> TRUE, value |-> n]
Null == [null |-> TRUE]

(***************************************************************************)
(* Strings as character sequences, and the String methods used on them.    *)
(***************************************************************************)
Digits == {"0", "1", "2", "3", "4", "5", "6", "7", "8", "9"}
Lower == {"a", "b", "c", "d", "e", "f", "g", "h", "i", "j", "k", "l", "m",
          "n", "o", "p", "q", "r", "s", "t", "u", "v", "w", "x", "y", "z"}
Upper == {"A", "B", "C", "D", "E", "F", "G", "H", "I", "J", "K", "L", "M",
          "N", "O", "P", "Q", "R", "S", "T", "U", "V", "W", "X", "Y", "Z"}
(* the character class [\d\w] *)
WordChars == Digits \cup Lower \cup Upper \cup {"_"}

SetMax(S) == CHOOSE x \in S : \A y \in S : y <= x

(* String.prototype.lastIndexOf(c): 0-based index of the last c, else -1 *)
LastIndexOf(s, c) ==
    LET hits == {i \in 1..Len(s) : s[i] = c}
    IN  IF hits = {} THEN 0 - 1 ELSE SetMax(hits) - 1

(* String.prototype.substr(start) with a 0-based start *)
Substr(s, start) == SubSeq(s, start + 1, Len(s))

(* PUBLIC_ID_REGEX.test(id): /^[\d\w]{3}-[\d\w]{3}-[\d\w]{3}$/ *)
PUBLIC_ID_REGEX(id) ==
    /\ Len(id) = 11
    /\ \A i \in {1, 2, 3, 5, 6, 7, 9, 10, 11} : id[i] \in WordChars
    /\ id[4] = "-"
    /\ id[8] = "-"

(* the identifier normalisation of getTestsToTrigger *)
NormalizePublicId(id) ==
    IF PUBLIC_ID_REGEX(id) THEN id ELSE Substr(id, LastIndexOf(id, "/") + 1)

(***************************************************************************)
(* Input domains.                                                          *)
(***************************************************************************)
IdA == <<"a", "b", "c", "-", "d", "e", "f", "-", "g", "h", "i">>
IdB == <<"j", "k", "l", "-", "m", "n", "o", "-", "p", "q", "r">>
(* a longer identifier whose suffix after the last '/' is the public id *)
LongIdA == <<"t", "/">> \o IdA

PublicIds == {IdA, IdB}
ConfigIds == {IdA, LongIdA, IdB}

(* result ids are generated by the backend, one per triggered result *)
ResultIds == <<"r1", "r2", "r3", "r4">>
UnknownResultId == "r0"

ConfigTimeouts == {Undefined, Some(5000)}
DefaultTimeouts == {7000}
PollLatencies == {0, 2000}

Device == "chrome.laptop_large"

TriggerResponse(publicId, resultId) ==
    [public_id |-> publicId, result_id |-> resultId, device |-> Device, location |-> 1]

(* lists of trigger responses: any public ids, pairwise distinct result ids *)
TriggerResponseLists ==
    UNION {{[i \in 1..n |-> TriggerResponse(p[i], ResultIds[i])] : p \in [1..n -> PublicIds]}
           : n \in 0..MaxResponses}

TriggerConfigsOf ==
    [id : ConfigIds, config : [pollingTimeout : ConfigTimeouts]]

TriggerConfigLists ==
    UNION {[1..n -> TriggerConfigsOf] : n \in 0..MaxConfigs}

(* the trigger configs of the polling runs: none, or one for the test IdA *)
PollingConfigLists ==
    {<<>>} \cup {<<[id |-> IdA, config |-> [pollingTimeout |-> t]]>> : t \in ConfigTimeouts}

(***************************************************************************)
(* JavaScript objects and Maps: a plain object used as a dictionary is a   *)
(* function; a Map is the sequence of its entries in insertion order.      *)
(***************************************************************************)
Range(s) == {s[i] : i \in 1..Len(s)}

(* a ?? b *)
Coalesce(a, b) == IF a = Undefined THEN b ELSE a[1]

ObjGet(obj, key) == IF key \in DOMAIN obj THEN Some(obj[key]) ELSE Undefined

ObjSet(obj, key, value) ==
    [k \in DOMAIN obj \cup {key} |-> IF k = key THEN value ELSE obj[k]]

MapHas(map, key) == \E i \in 1..Len(map) : map[i].key = key

MapIndex(map, key) == CHOOSE i \in 1..Len(map) : map[i].key = key

(* Map.prototype.set: an existing key keeps its position *)
MapSet(map, key, value) ==
    IF MapHas(map, key)
    THEN [map EXCEPT ![MapIndex(map, key)] = [key |-> key, value |-> value]]
    ELSE Append(map, [key |-> key, value |-> value])

(* [...map.values()] *)
MapValues(map) == [i \in 1..Len(map) |-> map[i].value]

(***************************************************************************)
(* createTriggerResultMap                                                  *)
(***************************************************************************)
RECURSIVE TimeoutByPublicId(_, _, _)
TimeoutByPublicId(triggerConfigs, defaultTimeout, acc) ==
    IF triggerConfigs = <<>> THEN acc
    ELSE LET trigger == Head(triggerConfigs)
         IN  TimeoutByPublicId(Tail(triggerConfigs), defaultTimeout,
                 ObjSet(acc, trigger.id, Coalesce(trigger.config.pollingTimeout, defaultTimeout)))

NewTriggerResult(triggerResponse, pollingTimeout) ==
    [public_id |-> triggerResponse.public_id,
     result_id |-> triggerResponse.result_id,
     device |-> triggerResponse.device,
     location |-> triggerResponse.location,
     pollingTimeout |-> pollingTimeout,
     result |-> Null]

RECURSIVE FillTriggerResultMap(_, _, _, _)
FillTriggerResultMap(triggerResponses, defaultTimeout, timeoutByPublicId, map) ==
    IF triggerResponses = <<>> THEN map
    ELSE LET triggerResponse == Head(triggerResponses)
         IN  FillTriggerResultMap(Tail(triggerResponses), defaultTimeout, timeoutByPublicId,
                 MapSet(map, triggerResponse.result_id,
                        NewTriggerResult(triggerResponse,
                            Coalesce(ObjGet(timeoutByPublicId, triggerResponse.public_id),
                                     defaultTimeout))))

createTriggerResultMap(triggerResponses, defaultTimeout, triggerConfigs) ==
    FillTriggerResultMap(triggerResponses, defaultTimeout,
        TimeoutByPublicId(triggerConfigs, defaultTimeout, <<>>), <<>>)

(***************************************************************************)
(* createFailingResult                                                     *)
(***************************************************************************)
createFailingResult(errorMessage, resultId, deviceId, dcId, tunnelFlag) ==
    [dc_id |-> dcId,
     result |-> [device |-> [height |-> 0, id |-> deviceId, width |-> 0],
                 duration |-> 0,
                 error |-> errorMessage,
                 eventType |-> "finished",
                 passed |-> FALSE,
                 startUrl |-> "",
                 stepDetails |-> <<>>,
                 tunnel |-> tunnelFlag],
     resultID |-> resultId,
     timestamp |-> 0]

(***************************************************************************)
(* The backend's answers to pollResults.                                   *)
(***************************************************************************)
PollVariants == {"absent", "in_progress", "finished_passed", "finished_failed"}

(* what a poll response may hold for a result id *)
PollVariantsOf(resultId) ==
    IF resultId = UnknownResultId THEN {"absent", "finished_passed"} ELSE PollVariants

PollChoices(ids) ==
    {choice \in [Range(ids) -> PollVariants] :
        \A id \in Range(ids) : choice[id] \in PollVariantsOf(id)}

PolledResult(resultId, variant) ==
    [dc_id |-> 1,
     result |-> IF variant = "in_progress"
                THEN [eventType |-> "in_progress"]
                ELSE [eventType |-> "finished", passed |-> (variant = "finished_passed")],
     resultID |-> resultId,
     timestamp |-> 1]

(* the result ids a poll response may mention: those of the trigger        *)
(* responses, and one the invocation never triggered                       *)
CandidateIds(responses) ==
    <<UnknownResultId>> \o [i \in 1..Len(responses) |-> responses[i].result_id]

RECURSIVE PollResponseOf(_, _)
PollResponseOf(ids, choice) ==
    IF ids = <<>> THEN <<>>
    ELSE IF choice[Head(ids)] = "absent" THEN PollResponseOf(Tail(ids), choice)
         ELSE <<PolledResult(Head(ids), choice[Head(ids)])>> \o PollResponseOf(Tail(ids), choice)

(* the errors a poll request may fail with; is5xxError reads the status of *)
(* the HTTP response, when there is one                                    *)
PollErrors == {[name |-> "AxiosError", status |-> Some(502)],
               [name |-> "AxiosError", status |-> Some(404)],
               [name |-> "Error", status |-> Undefined]}

is5xxError(error) ==
    /\ error.status # Undefined
    /\ error.status[1] >= 500
    /\ error.status[1] <= 599

(***************************************************************************)
(* State of one invocation of waitForResults.                              *)
(***************************************************************************)
VARIABLES
    triggerResponses,      \* argument
    defaultTimeout,        \* argument
    triggerConfigs,        \* argument
    tunnel,                \* argument: TRUE iff a tunnel is supplied
    failOnCriticalErrors,  \* argument
    triggerResults,        \* the TriggerResult objects, in triggerResultMap order
    maxPollingTimeout,
    pollingStartDate,
    isTunnelConnected,
    pollingDuration,
    triggerResultsSucceed, \* result ids of the poll request being made
    pc,                    \* position of the async function
    returned,              \* the mapping the promise is fulfilled with
    thrown,                \* the error the promise is rejected with
    now,                   \* the clock, new Date().getTime()
    keepAlive,             \* state of the tunnel.keepAlive() promise
    inFlight,              \* number of poll requests not yet completed
    pollRequests,          \* number of poll requests issued
    lastPollEnd,           \* clock at the completion of the last poll
    pollError,             \* the error the last poll request failed with
    exitKind               \* how the polling loop was left

pollingVars == <<triggerResponses, defaultTimeout, triggerConfigs, tunnel, failOnCriticalErrors,
                 triggerResults, maxPollingTimeout, pollingStartDate, isTunnelConnected,
                 pollingDuration, triggerResultsSucceed, pc, returned, thrown, now, keepAlive,
                 inFlight, pollRequests, lastPollEnd, pollError, exitKind>>

args == <<triggerResponses, defaultTimeout, triggerConfigs, tunnel, failOnCriticalErrors>>

(***************************************************************************)
(* State of the other functions of the module, one group per function.     *)
(* A group is idle while a behaviour exercises another function.           *)
(***************************************************************************)
VARIABLES
    test,                  \* getExecutionRule: argument
    configOverride,        \* getExecutionRule: argument
    executionRule,         \* getExecutionRule: the value returned, once it has
    lookupConfigs,         \* getTestsToTrigger: the argument triggerConfigs
    lookups,               \* getTestsToTrigger: the promise of each map callback
    rejection,             \* getTestsToTrigger: what Promise.all is rejected with
    overriddenTestsToTrigger,
    errorMessages,
    summary,
    reporterCalls,         \* getTestsToTrigger: the calls made on the reporter
    lookupPc,              \* getTestsToTrigger: position of the async function
    lookupReturned,        \* getTestsToTrigger: the value it is fulfilled with
    lookupThrown,          \* getTestsToTrigger: the error it is rejected with
    pollResults,           \* hasTestSucceeded: the argument results
    policy,                \* hasResultPassed: failOnCriticalErrors and failOnTimeout
    verdicts,              \* hasResultPassed: the value returned for each result
    succeeded,             \* hasTestSucceeded: the value returned
    reporters,             \* getReporter: the argument reporters
    hookCalls,             \* getReporter: the calls made on the composite reporter
    invocations,           \* getReporter: the calls made on the member reporters
    outcomes,              \* getReporter: how each call on the composite ended
    retries,               \* retry: the argument of the running trier
    attempts,              \* retry: how each call of func ended, in order
    decisions,             \* retry: the calls of shouldRetryAfterWait and their values
    waits,                 \* retry: the durations given to wait
    retryPc,               \* retry: position of the async function
    retryReturned,         \* retry: the value it is fulfilled with
    retryThrown            \* retry: the error it is rejected with

ruleVars == <<test, configOverride, executionRule>>

lookupVars == <<lookupConfigs, lookups, rejection, overriddenTestsToTrigger, errorMessages,
                summary, reporterCalls, lookupPc, lookupReturned, lookupThrown>>

LookupIdle ==
    /\ lookupConfigs = <<>>
    /\ lookups = <<>>
    /\ rejection = Null
    /\ overriddenTestsToTrigger = <<>>
    /\ errorMessages = <<>>
    /\ summary = Null
    /\ reporterCalls = <<>>
    /\ lookupPc = "idle"
    /\ lookupReturned = Null
    /\ lookupThrown = Null

RuleIdle ==
    /\ test = Null
    /\ configOverride = Null
    /\ executionRule = Undefined

classifierVars == <<pollResults, policy, verdicts, succeeded>>

ClassifierIdle ==
    /\ pollResults = <<>>
    /\ policy = Null
    /\ verdicts = Undefined
    /\ succeeded = Undefined

reporterVars == <<reporters, hookCalls, invocations, outcomes>>

ReporterIdle ==
    /\ reporters = <<>>
    /\ hookCalls = <<>>
    /\ invocations = <<>>
    /\ outcomes = <<>>

retryVars == <<retries, attempts, decisions, waits, retryPc, retryReturned, retryThrown>>

RetryIdle ==
    /\ retries = 0
    /\ attempts = <<>>
    /\ decisions = <<>>
    /\ waits = <<>>
    /\ retryPc = "idle"
    /\ retryReturned = Undefined
    /\ retryThrown = Null

VARIABLES
    ciTriggerApp,          \* the module's variable of line 45
    testsToTrigger,        \* runTests: argument
    triggerRequests,       \* runTests: the api.triggerTests requests made
    runPc,                 \* runTests: position of the async function
    runReturned,           \* runTests: the value it is fulfilled with
    runThrown              \* runTests: the error it is rejected with

runVars == <<ciTriggerApp, testsToTrigger, triggerRequests, runPc, runReturned, runThrown>>

RunIdle ==
    /\ ciTriggerApp = "npm_package"
    /\ testsToTrigger = <<>>
    /\ triggerRequests = <<>>
    /\ runPc = "idle"
    /\ runReturned = Null
    /\ runThrown = Null

VARIABLES
    env,                   \* getUserGitMetadata: process.env
    gitMetadata            \* getUserGitMetadata: the value returned

gitVars == <<env, gitMetadata>>

GitIdle ==
    /\ env = Null
    /\ gitMetadata = Undefined

VARIABLES
    processEnv,            \* handleConfig: process.env, its entries in order
    urlTest,               \* handleConfig: test
    urlConfig,             \* handleConfig: config
    handled,               \* handleConfig: the payload returned
    configCalls            \* handleConfig: the calls made on reporter

urlVars == <<processEnv, urlTest, urlConfig, handled, configCalls>>

UrlIdle ==
    /\ processEnv = <<>>
    /\ urlTest = Null
    /\ urlConfig = Undefined
    /\ handled = Undefined
    /\ configCalls = <<>>

otherVars == <<ruleVars, lookupVars, classifierVars, reporterVars, retryVars, runVars, gitVars, urlVars>>

OtherIdle == RuleIdle /\ LookupIdle /\ ClassifierIdle /\ ReporterIdle /\ RetryIdle /\ RunIdle /\ GitIdle /\ UrlIdle

vars == <<pollingVars, otherVars>>

StartDates == {1000}

Init ==
    /\ triggerResponses \in TriggerResponseLists
    /\ defaultTimeout \in DefaultTimeouts
    /\ triggerConfigs \in PollingConfigLists
    /\ tunnel \in BOOLEAN
    /\ failOnCriticalErrors \in BOOLEAN
    /\ triggerResults = <<>>
    /\ maxPollingTimeout = NegInfinity
    /\ pollingStartDate = 0
    /\ isTunnelConnected = TRUE
    /\ pollingDuration = 0
    /\ triggerResultsSucceed = <<>>
    /\ pc = "start"
    /\ returned = Null
    /\ thrown = Null
    /\ now \in StartDates
    /\ keepAlive = "none"
    /\ inFlight = 0
    /\ pollRequests = 0
    /\ lastPollEnd = Undefined
    /\ pollError = Null
    /\ exitKind = "none"
    /\ OtherIdle

(***************************************************************************)
(* Helpers of the loop body.                                               *)
(***************************************************************************)
(* triggerResults.filter((tr) => !tr.result), as indices *)
Pending(trs) == {i \in 1..Len(trs) : trs[i].result = Null}

(* Math.max(...values) *)
MathMax(values) == IF values = {} THEN NegInfinity ELSE Finite(SetMax(values))

(* a >= b, where b may be -Infinity *)
Geq(a, b) == IF b = NegInfinity THEN TRUE ELSE a >= b.value

(* lines 265-275 with > in place of >= *)
TimeoutPending_Strict(trs, duration, tunnelFlag) ==
    [i \in 1..Len(trs) |->
        IF trs[i].result = Null /\ duration > trs[i].pollingTimeout
        THEN [trs[i] EXCEPT !.result =
                 createFailingResult(ERRORS.TIMEOUT, trs[i].result_id, trs[i].device,
                                     trs[i].location, tunnelFlag)]
        ELSE trs[i]]

(* lines 265-275 comparing with the largest pollingTimeout *)
TimeoutPending_Global(trs, duration, tunnelFlag) ==
    [i \in 1..Len(trs) |->
        IF /\ trs[i].result = Null
           /\ duration >= SetMax({trs[j].pollingTimeout : j \in 1..Len(trs)})
        THEN [trs[i] EXCEPT !.result =
                 createFailingResult(ERRORS.TIMEOUT, trs[i].result_id, trs[i].device,
                                     trs[i].location, tunnelFlag)]
        ELSE trs[i]]

(* lines 265-275 *)
TimeoutPending(trs, duration, tunnelFlag) ==
    [i \in 1..Len(trs) |->
        IF trs[i].result = Null /\ duration >= trs[i].pollingTimeout
        THEN [trs[i] EXCEPT !.result =
                 createFailingResult(ERRORS.TIMEOUT, trs[i].result_id, trs[i].device,
                                     trs[i].location, tunnelFlag)]
        ELSE trs[i]]

(* lines 277-287 *)
TunnelPending(trs, tunnelFlag, connected) ==
    IF tunnelFlag /\ ~connected
    THEN [i \in 1..Len(trs) |->
             IF trs[i].result = Null
             THEN [trs[i] EXCEPT !.result =
                      createFailingResult(ERRORS.TUNNEL, trs[i].result_id, trs[i].device,
                                          trs[i].location, tunnelFlag)]
             ELSE trs[i]]
    ELSE trs

(* lines 300-308 over triggerResults in place of triggerResultsSucceed *)
EndpointPending_All(trs, succeed, tunnelFlag) ==
    [i \in 1..Len(trs) |->
        [trs[i] EXCEPT !.result =
            createFailingResult(ERRORS.ENDPOINT, trs[i].result_id, trs[i].device,
                                trs[i].location, tunnelFlag)]]

(* lines 300-308 *)
EndpointPending(trs, succeed, tunnelFlag) ==
    [i \in 1..Len(trs) |->
        IF trs[i].result_id \in Range(succeed)
        THEN [trs[i] EXCEPT !.result =
                 createFailingResult(ERRORS.ENDPOINT, trs[i].result_id, trs[i].device,
                                     trs[i].location, tunnelFlag)]
        ELSE trs[i]]

(* lines 314-321 without the test of eventType *)
AttachPolled_AnyEvent(trs, polledResult) ==
    [i \in 1..Len(trs) |->
        IF trs[i].result_id = polledResult.resultID
        THEN [trs[i] EXCEPT !.result = polledResult]
        ELSE trs[i]]

(* lines 314-321: triggerResultMap.get(polledResult.resultID) finds the    *)
(* trigger result whose result_id is the key                               *)
AttachPolled(trs, polledResult) ==
    IF polledResult.result.eventType = "finished"
    THEN [i \in 1..Len(trs) |->
             IF trs[i].result_id = polledResult.resultID
             THEN [trs[i] EXCEPT !.result = polledResult]
             ELSE trs[i]]
    ELSE trs

RECURSIVE ApplyPolled(_, _)
ApplyPolled(trs, polledResults) ==
    IF polledResults = <<>> THEN trs
    ELSE ApplyPolled(AttachPolled(trs, Head(polledResults)), Tail(polledResults))

(* lines 331-336 with the result put in front of the earlier ones *)
RECURSIVE BundleByPublicId_Prepend(_, _)
BundleByPublicId_Prepend(trs, resultsByPublicId) ==
    IF trs = <<>> THEN resultsByPublicId
    ELSE LET triggerResult == Head(trs)
             previous == IF triggerResult.public_id \in DOMAIN resultsByPublicId
                         THEN resultsByPublicId[triggerResult.public_id]
                         ELSE <<>>
         IN  BundleByPublicId_Prepend(Tail(trs),
                 ObjSet(resultsByPublicId, triggerResult.public_id,
                        <<triggerResult.result>> \o previous))

(* lines 331-336 *)
RECURSIVE BundleByPublicId(_, _)
BundleByPublicId(trs, resultsByPublicId) ==
    IF trs = <<>> THEN resultsByPublicId
    ELSE LET triggerResult == Head(trs)
             previous == IF triggerResult.public_id \in DOMAIN resultsByPublicId
                         THEN resultsByPublicId[triggerResult.public_id]
                         ELSE <<>>
         IN  BundleByPublicId(Tail(trs),
                 ObjSet(resultsByPublicId, triggerResult.public_id,
                        Append(previous, triggerResult.result)))

(***************************************************************************)
(* waitForResults, one action per synchronous stretch of the function.     *)
(***************************************************************************)
(* lines 247-259 *)
Enter ==
    /\ pc = "start"
    /\ LET triggerResultMap == createTriggerResultMap(triggerResponses, defaultTimeout, triggerConfigs)
           values == MapValues(triggerResultMap)
       IN  /\ triggerResults' = values
           /\ maxPollingTimeout' = MathMax({values[i].pollingTimeout : i \in 1..Len(values)})
    /\ pollingStartDate' = now
    /\ isTunnelConnected' = TRUE
    /\ keepAlive' = IF tunnel THEN "pending" ELSE "none"
    /\ pc' = "loop"
    /\ UNCHANGED <<otherVars, args, pollingDuration, triggerResultsSucceed, returned, thrown, now,
                   inFlight, pollRequests, lastPollEnd, exitKind, pollError>>

(* line 261-262 *)
LoopCheck ==
    /\ pc = "loop"
    /\ IF Pending(triggerResults) # {}
       THEN /\ pollingDuration' = now - pollingStartDate
            /\ pc' = "timeout"
            /\ UNCHANGED exitKind
       ELSE /\ pc' = "bundle"
            /\ exitKind' = "loop_end"
            /\ UNCHANGED pollingDuration
    /\ UNCHANGED <<otherVars, args, triggerResults, maxPollingTimeout, pollingStartDate, isTunnelConnected,
                   triggerResultsSucceed, returned, thrown, now, keepAlive, inFlight,
                   pollRequests, lastPollEnd, pollError>>

(* lines 264-275 *)
TimeoutStep ==
    /\ pc = "timeout"
    /\ triggerResults' = TimeoutPending(triggerResults, pollingDuration, tunnel)
    /\ pc' = "tunnel"
    /\ UNCHANGED <<otherVars, args, maxPollingTimeout, pollingStartDate, isTunnelConnected, pollingDuration,
                   triggerResultsSucceed, returned, thrown, now, keepAlive, inFlight,
                   pollRequests, lastPollEnd, exitKind, pollError>>

(* lines 277-287 *)
TunnelStep ==
    /\ pc = "tunnel"
    /\ triggerResults' = TunnelPending(triggerResults, tunnel, isTunnelConnected)
    /\ pc' = "deadline"
    /\ UNCHANGED <<otherVars, args, maxPollingTimeout, pollingStartDate, isTunnelConnected, pollingDuration,
                   triggerResultsSucceed, returned, thrown, now, keepAlive, inFlight,
                   pollRequests, lastPollEnd, exitKind, pollError>>

(* lines 289-291 without the break *)
DeadlineCheck_NoBreak ==
    /\ pc = "deadline"
    /\ pc' = "poll"
    /\ UNCHANGED <<otherVars, args, triggerResults, maxPollingTimeout, pollingStartDate, isTunnelConnected,
                   pollingDuration, triggerResultsSucceed, returned, thrown, now, keepAlive,
                   inFlight, pollRequests, lastPollEnd, pollError, exitKind>>

(* lines 289-291 *)
DeadlineCheck ==
    /\ pc = "deadline"
    /\ IF Geq(pollingDuration, maxPollingTimeout)
       THEN /\ pc' = "bundle"
            /\ exitKind' = "deadline"
       ELSE /\ pc' = "poll"
            /\ UNCHANGED exitKind
    /\ UNCHANGED <<otherVars, args, triggerResults, maxPollingTimeout, pollingStartDate, isTunnelConnected,
                   pollingDuration, triggerResultsSucceed, returned, thrown, now, keepAlive,
                   inFlight, pollRequests, lastPollEnd, pollError>>

(* lines 293-296: the request is sent and the function suspends *)
PollRequest ==
    /\ pc = "poll"
    /\ triggerResultsSucceed' =
           LET idx == Pending(triggerResults)
               RECURSIVE Ids(_)
               Ids(i) == IF i > Len(triggerResults) THEN <<>>
                         ELSE IF i \in idx THEN <<triggerResults[i].result_id>> \o Ids(i + 1)
                              ELSE Ids(i + 1)
           IN  Ids(1)
    /\ inFlight' = inFlight + 1
    /\ pollRequests' = pollRequests + 1
    /\ pc' = "polling"
    /\ UNCHANGED <<otherVars, args, triggerResults, maxPollingTimeout, pollingStartDate, isTunnelConnected,
                   pollingDuration, returned, thrown, now, keepAlive, lastPollEnd, exitKind, pollError>>

(* lines 323-327 without the wait *)
AfterPoll_NoWait(trs) ==
    IF Pending(trs) = {}
    THEN /\ pc' = "bundle"
         /\ exitKind' = "nothing_pending"
    ELSE /\ pc' = "loop"
         /\ UNCHANGED exitKind

(* lines 323-327, after the results of a poll were applied *)
AfterPoll(trs) ==
    IF Pending(trs) = {}
    THEN /\ pc' = "bundle"
         /\ exitKind' = "nothing_pending"
    ELSE /\ pc' = "waiting"
         /\ UNCHANGED exitKind

(* line 298 without the failOnCriticalErrors test *)
ShouldSwallow_IgnoreFlag(error, failOnCritical) == is5xxError(error)

(* line 298 *)
ShouldSwallow(error, failOnCritical) == is5xxError(error) /\ ~failOnCritical

(* lines 296, 314-327: the poll request is answered *)
PollFulfilled ==
    /\ pc = "polling"
    /\ \E latency \in PollLatencies :
       \E choice \in PollChoices(CandidateIds(triggerResponses)) :
          LET polledResults == PollResponseOf(CandidateIds(triggerResponses), choice)
              trs == ApplyPolled(triggerResults, polledResults)
          IN  /\ now' = now + latency
              /\ lastPollEnd' = Some(now + latency)
              /\ triggerResults' = trs
              /\ AfterPoll(trs)
    /\ inFlight' = inFlight - 1
    /\ UNCHANGED <<otherVars, args, maxPollingTimeout, pollingStartDate, isTunnelConnected, pollingDuration,
                   triggerResultsSucceed, returned, thrown, keepAlive, pollRequests, pollError>>

(* lines 297-327: the poll request fails *)
PollRejected ==
    /\ pc = "polling"
    /\ \E latency \in PollLatencies :
       \E error \in PollErrors :
          /\ now' = now + latency
          /\ lastPollEnd' = Some(now + latency)
          /\ pollError' = error
          /\ IF ShouldSwallow(error, failOnCriticalErrors)
             THEN LET trs == ApplyPolled(
                                 EndpointPending(triggerResults, triggerResultsSucceed, tunnel),
                                 <<>>)
                  IN  /\ triggerResults' = trs
                      /\ AfterPoll(trs)
                      /\ UNCHANGED thrown
             ELSE /\ thrown' = error
                  /\ pc' = "thrown"
                  /\ UNCHANGED <<triggerResults, exitKind>>
    /\ inFlight' = inFlight - 1
    /\ UNCHANGED <<otherVars, args, maxPollingTimeout, pollingStartDate, isTunnelConnected, pollingDuration,
                   triggerResultsSucceed, returned, keepAlive, pollRequests>>

(* line 327 and `wait`: the timer of POLLING_INTERVAL ms fires *)
WaitDone ==
    /\ pc = "waiting"
    /\ now' = now + POLLING_INTERVAL
    /\ pc' = "loop"
    /\ UNCHANGED <<otherVars, args, triggerResults, maxPollingTimeout, pollingStartDate, isTunnelConnected,
                   pollingDuration, triggerResultsSucceed, returned, thrown, keepAlive,
                   inFlight, pollRequests, lastPollEnd, exitKind, pollError>>

(* lines 255-258 without the .then callback *)
KeepAliveSettles_OnlyCatch(outcome) ==
    /\ keepAlive = "pending"
    /\ pc \in {"polling", "waiting"}
    /\ keepAlive' = outcome
    /\ isTunnelConnected' = (outcome = "fulfilled")
    /\ UNCHANGED <<otherVars, args, triggerResults, maxPollingTimeout, pollingStartDate, pollingDuration,
                   triggerResultsSucceed, pc, returned, thrown, now, inFlight, pollRequests,
                   lastPollEnd, exitKind, pollError>>

(* lines 255-258: the keepAlive promise settles; its callbacks run only    *)
(* while waitForResults is suspended in an await                           *)
KeepAliveSettles(outcome) ==
    /\ keepAlive = "pending"
    /\ pc \in {"polling", "waiting"}
    /\ keepAlive' = outcome
    /\ isTunnelConnected' = FALSE
    /\ UNCHANGED <<otherVars, args, triggerResults, maxPollingTimeout, pollingStartDate, pollingDuration,
                   triggerResultsSucceed, pc, returned, thrown, now, inFlight, pollRequests,
                   lastPollEnd, exitKind, pollError>>

KeepAliveFulfilled == KeepAliveSettles("fulfilled")

KeepAliveRejected == KeepAliveSettles("rejected")

(* lines 330-336 *)
Bundle ==
    /\ pc = "bundle"
    /\ returned' = BundleByPublicId(triggerResults, <<>>)
    /\ pc' = "done"
    /\ UNCHANGED <<otherVars, args, triggerResults, maxPollingTimeout, pollingStartDate, isTunnelConnected,
                   pollingDuration, triggerResultsSucceed, thrown, now, keepAlive, inFlight,
                   pollRequests, lastPollEnd, exitKind, pollError>>

Next ==
    \/ Enter
    \/ LoopCheck
    \/ TimeoutStep
    \/ TunnelStep
    \/ DeadlineCheck
    \/ PollRequest
    \/ PollFulfilled
    \/ PollRejected
    \/ WaitDone
    \/ KeepAliveFulfilled
    \/ KeepAliveRejected
    \/ Bundle

Spec == Init /\ [][Next]_vars

(* the synchronous stretches of the function run to their end, every poll  *)
(* request completes and every timer fires                                 *)
Synchronous ==
    Enter \/ LoopCheck \/ TimeoutStep \/ TunnelStep \/ DeadlineCheck \/ PollRequest \/ Bundle

FairSpec ==
    /\ Spec
    /\ WF_vars(Synchronous)
    /\ WF_vars(PollFulfilled \/ PollRejected)
    /\ WF_vars(WaitDone)

(***************************************************************************)
(* createTriggerResultMap on its own, over every list of trigger configs.  *)
(***************************************************************************)
InitMap ==
    /\ triggerResponses \in TriggerResponseLists
    /\ defaultTimeout \in DefaultTimeouts
    /\ triggerConfigs \in TriggerConfigLists
    /\ tunnel = FALSE
    /\ failOnCriticalErrors = FALSE
    /\ triggerResults = <<>>
    /\ maxPollingTimeout = NegInfinity
    /\ pollingStartDate = 0
    /\ isTunnelConnected = TRUE
    /\ pollingDuration = 0
    /\ triggerResultsSucceed = <<>>
    /\ pc = "start"
    /\ returned = Null
    /\ thrown = Null
    /\ now \in StartDates
    /\ keepAlive = "none"
    /\ inFlight = 0
    /\ pollRequests = 0
    /\ lastPollEnd = Undefined
    /\ pollError = Null
    /\ exitKind = "none"
    /\ OtherIdle

NextMap == Enter

SpecMap == InitMap /\ [][NextMap]_vars

(* waitForResults is not called *)
PollingIdle ==
    /\ triggerResponses = <<>>
    /\ defaultTimeout \in DefaultTimeouts
    /\ triggerConfigs = <<>>
    /\ tunnel = FALSE
    /\ failOnCriticalErrors = FALSE
    /\ triggerResults = <<>>
    /\ maxPollingTimeout = NegInfinity
    /\ pollingStartDate = 0
    /\ isTunnelConnected = TRUE
    /\ pollingDuration = 0
    /\ triggerResultsSucceed = <<>>
    /\ pc = "idle"
    /\ returned = Null
    /\ thrown = Null
    /\ now \in StartDates
    /\ keepAlive = "none"
    /\ inFlight = 0
    /\ pollRequests = 0
    /\ lastPollEnd = Undefined
    /\ pollError = Null
    /\ exitKind = "none"

(***************************************************************************)
(* getExecutionRule and getStrictestExecutionRule                          *)
(***************************************************************************)
(* ExecutionRule enum of ./interfaces *)
ExecutionRule == [BLOCKING |-> "blocking", NON_BLOCKING |-> "non_blocking", SKIPPED |-> "skipped"]

ExecutionRules == {ExecutionRule.BLOCKING, ExecutionRule.NON_BLOCKING, ExecutionRule.SKIPPED}

(* an object without own properties, {} *)
EmptyObject == [k \in {} |-> Null]

(* {...a, ...b} *)
Spread(a, b) == [k \in DOMAIN a \cup DOMAIN b |-> IF k \in DOMAIN b THEN b[k] ELSE a[k]]

(* a || b for an optional string a *)
OrElse(a, b) == IF a = Undefined \/ a[1] = "" THEN b ELSE a[1]

(* test.options?.ci?.executionRule *)
TestExecutionRule(t) ==
    IF t.options = Undefined THEN Undefined
    ELSE IF t.options[1].ci = Undefined THEN Undefined
    ELSE t.options[1].ci[1].executionRule

(* lines 170-184 returning the rule of the config *)
getStrictestExecutionRule_ConfigWins(configRule, testRule) == configRule

(* lines 170-184; testRule is optional *)
getStrictestExecutionRule(configRule, testRule) ==
    IF configRule = ExecutionRule.SKIPPED \/ testRule = Some(ExecutionRule.SKIPPED)
    THEN ExecutionRule.SKIPPED
    ELSE IF configRule = ExecutionRule.NON_BLOCKING \/ testRule = Some(ExecutionRule.NON_BLOCKING)
    THEN ExecutionRule.NON_BLOCKING
    ELSE IF configRule = ExecutionRule.BLOCKING \/ testRule = Some(ExecutionRule.BLOCKING)
    THEN ExecutionRule.BLOCKING
    ELSE ExecutionRule.BLOCKING

(* lines 162-168; override is optional, and an object when present *)
getExecutionRule(t, override) ==
    IF override # Undefined /\ OrElse(ObjGet(override[1], "executionRule"), "") # ""
    THEN getStrictestExecutionRule(override[1].executionRule, TestExecutionRule(t))
    ELSE OrElse(TestExecutionRule(t), ExecutionRule.BLOCKING)

(* the options of a test: none, without ci, with a ci without rule, or with *)
(* a ci that sets a rule                                                   *)
TestOptions ==
    {Undefined, Some([ci |-> Undefined]), Some([ci |-> Some([executionRule |-> Undefined])])}
    \cup {Some([ci |-> Some([executionRule |-> Some(r)])]) : r \in ExecutionRules}

TestTypes == {"api", "browser"}

Tests == [type : TestTypes, options : TestOptions]

(* config overrides: each of executionRule and pollingTimeout set or not *)
ConfigOverrides ==
    {Spread(a, b) : a \in {EmptyObject} \cup {[executionRule |-> r] : r \in ExecutionRules},
                    b \in {EmptyObject, [pollingTimeout |-> 5000]}}

OptionalConfigOverrides == {Undefined} \cup {Some(c) : c \in ConfigOverrides}

InitRule ==
    /\ PollingIdle
    /\ UrlIdle
    /\ GitIdle
    /\ RunIdle
    /\ LookupIdle
    /\ ClassifierIdle
    /\ ReporterIdle
    /\ RetryIdle
    /\ test \in Tests
    /\ configOverride \in OptionalConfigOverrides
    /\ executionRule = Undefined

GetExecutionRule ==
    /\ executionRule = Undefined
    /\ test # Null
    /\ executionRule' = Some(getExecutionRule(test, configOverride))
    /\ UNCHANGED <<pollingVars, urlVars, gitVars, runVars, lookupVars, classifierVars, reporterVars, retryVars, test, configOverride>>

NextRule == GetExecutionRule

SpecRule == InitRule /\ [][NextRule]_vars

(***************************************************************************)
(* handleConfig                                                            *)
(***************************************************************************)
(* the keys of the override that handleConfig copies to the payload *)
PickedKeys ==
    {"allowInsecureCertificates", "basicAuth", "body", "bodyType", "cookies",
     "defaultStepTimeout", "deviceIds", "followRedirects", "headers", "locations",
     "pollingTimeout", "retry", "startUrlSubstitutionRegex", "tunnel", "variables"}

(* pick(object, keys) of helpers/utils: the properties of object named by keys *)
pick(object, keys) == [k \in DOMAIN object \cap keys |-> object[k]]

(* lines 47-93 for an override without startUrl, which makes the test of    *)
(* line 84 false                                                            *)
handleConfig(t, publicId, config) ==
    LET handledConfig == [executionRule |-> getExecutionRule(t, config), public_id |-> publicId]
    IN  IF config = Undefined \/ DOMAIN config[1] = {}
        THEN handledConfig
        ELSE Spread(handledConfig, pick(config[1], PickedKeys))

(***************************************************************************)
(* getTestsToTrigger                                                       *)
(***************************************************************************)
(* lines 382-389 *)
createSummary ==
    [criticalErrors |-> 0, failed |-> 0, passed |-> 0, skipped |-> 0,
     testsNotFound |-> {}, timedOut |-> 0]

(* the identifiers of the trigger configs, one of them a longer identifier *)
LookupIds == {LongIdA, IdB}

LookupOverrides ==
    {EmptyObject, [executionRule |-> ExecutionRule.SKIPPED],
     [executionRule |-> ExecutionRule.NON_BLOCKING, pollingTimeout |-> 5000]}

LookupConfigsOf == [id : LookupIds, config : {Some(c) : c \in LookupOverrides}, suite : {"suite"}]

LookupConfigLists == UNION {[1..n -> LookupConfigsOf] : n \in 0..MaxConfigs}

(* the tests api.getTest may answer with for an identifier *)
BackendTests(id) ==
    {[public_id |-> id, type |-> "api", options |-> o] :
        o \in {Undefined, Some([ci |-> Some([executionRule |-> Some(ExecutionRule.SKIPPED)])])}}

(* the errors api.getTest may fail with *)
LookupErrors == {[name |-> "AxiosError", status |-> Some(404)],
                 [name |-> "AxiosError", status |-> Some(403)]}

isNotFoundError(error) == error.status = Some(404)

(* `[${id}] Test not found: ${formatBackendErrors(error)}` *)
NotFoundMessage(id, error) == [id |-> id, text |-> "Test not found", error |-> error]

Call(hook, arguments) == [hook |-> hook, args |-> arguments]

AllFulfilled == \A i \in 1..Len(lookups) : lookups[i].status = "fulfilled"

SomeRejected == \E i \in 1..Len(lookups) : lookups[i].status = "rejected"

(* Promise.all has settled and the function resumes before anything else *)
ContinuationDue == lookupPc = "awaiting" /\ (AllFulfilled \/ SomeRejected)

(* tests.filter(definedTypeGuard) with the last test first *)
DefinedTests_Reversed(values) ==
    LET defined == SelectSeq(values, LAMBDA v : v # Undefined)
    IN  [i \in 1..Len(defined) |-> defined[Len(defined) + 1 - i][1]]

(* tests.filter(definedTypeGuard) *)
DefinedTests(values) ==
    LET defined == SelectSeq(values, LAMBDA v : v # Undefined)
    IN  [i \in 1..Len(defined) |-> defined[i][1]]

InitLookup ==
    /\ PollingIdle
    /\ UrlIdle
    /\ GitIdle
    /\ RunIdle
    /\ RuleIdle
    /\ ClassifierIdle
    /\ ReporterIdle
    /\ RetryIdle
    /\ lookupConfigs \in LookupConfigLists
    /\ lookups = <<>>
    /\ rejection = Null
    /\ overriddenTestsToTrigger = <<>>
    /\ errorMessages = <<>>
    /\ summary = Null
    /\ reporterCalls = <<>>
    /\ lookupPc = "start"
    /\ lookupReturned = Null
    /\ lookupThrown = Null

(* lines 468-476 and 479: every map callback runs to its await *)
GetTestsToTrigger ==
    /\ lookupPc = "start"
    /\ overriddenTestsToTrigger' = <<>>
    /\ errorMessages' = <<>>
    /\ summary' = createSummary
    /\ lookups' = [i \in 1..Len(lookupConfigs) |->
                      [id |-> NormalizePublicId(lookupConfigs[i].id),
                       status |-> "pending", value |-> Undefined]]
    /\ lookupPc' = "awaiting"
    /\ UNCHANGED <<pollingVars, urlVars, gitVars, runVars, ruleVars, classifierVars, reporterVars, retryVars, lookupConfigs, rejection, reporterCalls,
                   lookupReturned, lookupThrown>>

(* lines 494-505 with the summary.testsNotFound.add(id) of line 484 *)
GetTestFulfilled_Recorded(i) ==
    /\ lookupPc # "start"
    /\ lookups[i].status = "pending"
    /\ ~ContinuationDue
    /\ \E answer \in BackendTests(lookups[i].id) :
          LET id == lookups[i].id
              found == Spread(answer, [suite |-> lookupConfigs[i].suite])
              overriddenConfig == handleConfig(found, id, lookupConfigs[i].config)
              triggered == Call("testTrigger",
                                <<found, id, overriddenConfig.executionRule, lookupConfigs[i].config>>)
          IN  /\ overriddenTestsToTrigger' = Append(overriddenTestsToTrigger, overriddenConfig)
              /\ IF overriddenConfig.executionRule = ExecutionRule.SKIPPED
                 THEN /\ reporterCalls' = Append(reporterCalls, triggered)
                      /\ summary' = [summary EXCEPT !.skipped = @ + 1,
                                                     !.testsNotFound = @ \cup {id}]
                      /\ lookups' = [lookups EXCEPT ![i].status = "fulfilled"]
                 ELSE /\ reporterCalls' = reporterCalls \o <<triggered, Call("testWait", <<found>>)>>
                      /\ summary' = [summary EXCEPT !.testsNotFound = @ \cup {id}]
                      /\ lookups' = [lookups EXCEPT ![i].status = "fulfilled",
                                                    ![i].value = Some(found)]
    /\ UNCHANGED <<pollingVars, urlVars, gitVars, runVars, ruleVars, classifierVars, reporterVars, retryVars, lookupConfigs, rejection, errorMessages, lookupPc,
                   lookupReturned, lookupThrown>>

(* lines 478-481 and 494-505: api.getTest(id) is fulfilled *)
GetTestFulfilled(i) ==
    /\ lookupPc # "start"
    /\ lookups[i].status = "pending"
    /\ ~ContinuationDue
    /\ \E answer \in BackendTests(lookups[i].id) :
          LET id == lookups[i].id
              found == Spread(answer, [suite |-> lookupConfigs[i].suite])
              overriddenConfig == handleConfig(found, id, lookupConfigs[i].config)
              triggered == Call("testTrigger",
                                <<found, id, overriddenConfig.executionRule, lookupConfigs[i].config>>)
          IN  /\ overriddenTestsToTrigger' = Append(overriddenTestsToTrigger, overriddenConfig)
              /\ IF overriddenConfig.executionRule = ExecutionRule.SKIPPED
                 THEN /\ reporterCalls' = Append(reporterCalls, triggered)
                      /\ summary' = [summary EXCEPT !.skipped = @ + 1]
                      /\ lookups' = [lookups EXCEPT ![i].status = "fulfilled"]
                 ELSE /\ reporterCalls' = reporterCalls \o <<triggered, Call("testWait", <<found>>)>>
                      /\ summary' = summary
                      /\ lookups' = [lookups EXCEPT ![i].status = "fulfilled",
                                                    ![i].value = Some(found)]
    /\ UNCHANGED <<pollingVars, urlVars, gitVars, runVars, ruleVars, classifierVars, reporterVars, retryVars, lookupConfigs, rejection, errorMessages, lookupPc,
                   lookupReturned, lookupThrown>>

(* lines 482-492 without the error message of lines 485-486 *)
GetTestRejected_Silent(i) ==
    /\ lookupPc # "start"
    /\ lookups[i].status = "pending"
    /\ ~ContinuationDue
    /\ \E error \in LookupErrors :
          IF isNotFoundError(error)
          THEN /\ summary' = [summary EXCEPT !.testsNotFound = @ \cup {lookups[i].id}]
               /\ errorMessages' = errorMessages
               /\ lookups' = [lookups EXCEPT ![i].status = "fulfilled"]
               /\ UNCHANGED rejection
          ELSE /\ lookups' = [lookups EXCEPT ![i].status = "rejected"]
               /\ rejection' = IF rejection = Null THEN error ELSE rejection
               /\ UNCHANGED <<summary, errorMessages>>
    /\ UNCHANGED <<pollingVars, urlVars, gitVars, runVars, ruleVars, classifierVars, reporterVars, retryVars, lookupConfigs, overriddenTestsToTrigger, reporterCalls,
                   lookupPc, lookupReturned, lookupThrown>>

(* lines 482-492: api.getTest(id) is rejected *)
GetTestRejected(i) ==
    /\ lookupPc # "start"
    /\ lookups[i].status = "pending"
    /\ ~ContinuationDue
    /\ \E error \in LookupErrors :
          IF isNotFoundError(error)
          THEN /\ summary' = [summary EXCEPT !.testsNotFound = @ \cup {lookups[i].id}]
               /\ errorMessages' = Append(errorMessages, NotFoundMessage(lookups[i].id, error))
               /\ lookups' = [lookups EXCEPT ![i].status = "fulfilled"]
               /\ UNCHANGED rejection
          ELSE /\ lookups' = [lookups EXCEPT ![i].status = "rejected"]
               /\ rejection' = IF rejection = Null THEN error ELSE rejection
               /\ UNCHANGED <<summary, errorMessages>>
    /\ UNCHANGED <<pollingVars, urlVars, gitVars, runVars, ruleVars, classifierVars, reporterVars, retryVars, lookupConfigs, overriddenTestsToTrigger, reporterCalls,
                   lookupPc, lookupReturned, lookupThrown>>

(* lines 508-518 testing the tests to wait for in place of the payloads *)
LookupsFulfilled_NoWaitedTests ==
    /\ lookupPc = "awaiting"
    /\ AllFulfilled
    /\ IF \A i \in 1..Len(lookups) : lookups[i].value = Undefined
       THEN /\ reporterCalls' = Append(reporterCalls, Call("initErrors", <<errorMessages>>))
            /\ lookupThrown' = [name |-> "Error", message |-> "No tests to trigger"]
            /\ lookupPc' = "thrown"
            /\ UNCHANGED lookupReturned
       ELSE LET waitedTests == DefinedTests([i \in 1..Len(lookups) |-> lookups[i].value])
            IN  /\ reporterCalls' = reporterCalls \o <<Call("initErrors", <<errorMessages>>),
                                                       Call("testsWait", <<waitedTests>>)>>
                /\ lookupReturned' = [tests |-> waitedTests,
                                      overriddenTestsToTrigger |-> overriddenTestsToTrigger,
                                      summary |-> summary]
                /\ lookupPc' = "done"
                /\ UNCHANGED lookupThrown
    /\ UNCHANGED <<pollingVars, urlVars, gitVars, runVars, ruleVars, classifierVars, reporterVars, retryVars, lookupConfigs, lookups, rejection,
                   overriddenTestsToTrigger, errorMessages, summary>>

(* lines 508-518: Promise.all is fulfilled *)
LookupsFulfilled ==
    /\ lookupPc = "awaiting"
    /\ AllFulfilled
    /\ IF Len(overriddenTestsToTrigger) = 0
       THEN /\ reporterCalls' = Append(reporterCalls, Call("initErrors", <<errorMessages>>))
            /\ lookupThrown' = [name |-> "Error", message |-> "No tests to trigger"]
            /\ lookupPc' = "thrown"
            /\ UNCHANGED lookupReturned
       ELSE LET waitedTests == DefinedTests([i \in 1..Len(lookups) |-> lookups[i].value])
            IN  /\ reporterCalls' = reporterCalls \o <<Call("initErrors", <<errorMessages>>),
                                                       Call("testsWait", <<waitedTests>>)>>
                /\ lookupReturned' = [tests |-> waitedTests,
                                      overriddenTestsToTrigger |-> overriddenTestsToTrigger,
                                      summary |-> summary]
                /\ lookupPc' = "done"
                /\ UNCHANGED lookupThrown
    /\ UNCHANGED <<pollingVars, urlVars, gitVars, runVars, ruleVars, classifierVars, reporterVars, retryVars, lookupConfigs, lookups, rejection,
                   overriddenTestsToTrigger, errorMessages, summary>>

(* line 473: Promise.all is rejected with the error of line 491 *)
LookupsRejected ==
    /\ lookupPc = "awaiting"
    /\ SomeRejected
    /\ lookupThrown' = rejection
    /\ lookupPc' = "thrown"
    /\ UNCHANGED <<pollingVars, urlVars, gitVars, runVars, ruleVars, classifierVars, reporterVars, retryVars, lookupConfigs, lookups, rejection,
                   overriddenTestsToTrigger, errorMessages, summary, reporterCalls,
                   lookupReturned>>

NextLookup ==
    \/ GetTestsToTrigger
    \/ \E i \in 1..Len(lookups) : GetTestFulfilled(i)
    \/ \E i \in 1..Len(lookups) : GetTestRejected(i)
    \/ LookupsFulfilled
    \/ LookupsRejected

SpecLookup == InitLookup /\ [][NextLookup]_vars

(***************************************************************************)
(* isCriticalError, hasResultPassed and hasTestSucceeded.  A Result is a   *)
(* record whose domain is the set of the properties that are defined.      *)
(***************************************************************************)
MaxResults == 2

(* line 186 with every error critical *)
isCriticalError_AnyError(result) ==
    \/ ObjGet(result, "unhealthy") = Some(TRUE)
    \/ ObjGet(result, "error") # Undefined

(* line 186 *)
isCriticalError(result) ==
    \/ ObjGet(result, "unhealthy") = Some(TRUE)
    \/ ObjGet(result, "error") = Some(ERRORS.ENDPOINT)

(* lines 188-206 testing errorCode before passed *)
hasResultPassed_ErrorCodeFirst(result, failOnCritical, failOnTimeout) ==
    IF isCriticalError(result) /\ ~failOnCritical THEN TRUE
    ELSE IF ObjGet(result, "error") = Some(ERRORS.TIMEOUT) /\ ~failOnTimeout THEN TRUE
    ELSE IF "errorCode" \in DOMAIN result THEN FALSE
    ELSE IF "passed" \in DOMAIN result THEN result.passed
    ELSE TRUE

(* lines 188-206 passing critical errors when failOnCriticalErrors is set *)
hasResultPassed_Inverted(result, failOnCritical, failOnTimeout) ==
    IF isCriticalError(result) /\ failOnCritical THEN TRUE
    ELSE IF ObjGet(result, "error") = Some(ERRORS.TIMEOUT) /\ ~failOnTimeout THEN TRUE
    ELSE IF "passed" \in DOMAIN result THEN result.passed
    ELSE IF "errorCode" \in DOMAIN result THEN FALSE
    ELSE TRUE

(* lines 188-206 testing failOnCriticalErrors for timeouts too *)
hasResultPassed_OneFlag(result, failOnCritical, failOnTimeout) ==
    IF isCriticalError(result) /\ ~failOnCritical THEN TRUE
    ELSE IF ObjGet(result, "error") = Some(ERRORS.TIMEOUT) /\ ~failOnCritical THEN TRUE
    ELSE IF "passed" \in DOMAIN result THEN result.passed
    ELSE IF "errorCode" \in DOMAIN result THEN FALSE
    ELSE TRUE

(* lines 188-206 *)
hasResultPassed(result, failOnCritical, failOnTimeout) ==
    IF isCriticalError(result) /\ ~failOnCritical THEN TRUE
    ELSE IF ObjGet(result, "error") = Some(ERRORS.TIMEOUT) /\ ~failOnTimeout THEN TRUE
    ELSE IF "passed" \in DOMAIN result THEN result.passed
    ELSE IF "errorCode" \in DOMAIN result THEN FALSE
    ELSE TRUE

(* lines 208-213 *)
hasTestSucceeded(results, failOnCritical, failOnTimeout) ==
    \A i \in 1..Len(results) : hasResultPassed(results[i].result, failOnCritical, failOnTimeout)

(* every combination of the properties the classifier reads *)
ClassifiedResults ==
    {Spread(Spread(u, e), Spread(p, c)) :
        u \in {EmptyObject, [unhealthy |-> TRUE], [unhealthy |-> FALSE]},
        e \in {EmptyObject} \cup {[error |-> x] : x \in {ERRORS.ENDPOINT, ERRORS.TIMEOUT, ERRORS.TUNNEL}},
        p \in {EmptyObject, [passed |-> TRUE], [passed |-> FALSE]},
        c \in {EmptyObject, [errorCode |-> "ERRABORTED"]}}

(* the results of the longer lists *)
ListedResults ==
    {Spread(e, p) :
        e \in {EmptyObject, [error |-> ERRORS.ENDPOINT], [error |-> ERRORS.TIMEOUT]},
        p \in {[passed |-> TRUE], [passed |-> FALSE]}}

PollResultsOf(results) == {[resultID |-> ResultIds[1], result |-> r] : r \in results}

PollResultLists ==
    [1..1 -> PollResultsOf(ClassifiedResults)]
    \cup UNION {[1..n -> PollResultsOf(ListedResults)] : n \in 0..MaxResults}

Policies == [failOnCriticalErrors : BOOLEAN, failOnTimeout : BOOLEAN]

InitClassifier ==
    /\ PollingIdle
    /\ UrlIdle
    /\ GitIdle
    /\ RunIdle
    /\ RuleIdle
    /\ LookupIdle
    /\ ReporterIdle
    /\ RetryIdle
    /\ pollResults \in PollResultLists
    /\ policy \in Policies
    /\ verdicts = Undefined
    /\ succeeded = Undefined

(* hasResultPassed on each of the results *)
HasResultPassed ==
    /\ policy # Null
    /\ verdicts = Undefined
    /\ verdicts' = Some([i \in 1..Len(pollResults) |->
                           hasResultPassed(pollResults[i].result, policy.failOnCriticalErrors,
                                           policy.failOnTimeout)])
    /\ UNCHANGED <<pollingVars, urlVars, gitVars, runVars, ruleVars, lookupVars, reporterVars, retryVars, pollResults, policy, succeeded>>

HasTestSucceeded ==
    /\ policy # Null
    /\ succeeded = Undefined
    /\ succeeded' = Some(hasTestSucceeded(pollResults, policy.failOnCriticalErrors,
                                          policy.failOnTimeout))
    /\ UNCHANGED <<pollingVars, urlVars, gitVars, runVars, ruleVars, lookupVars, reporterVars, retryVars, pollResults, policy, verdicts>>

NextClassifier == HasResultPassed \/ HasTestSucceeded

SpecClassifier == InitClassifier /\ [][NextClassifier]_vars

(***************************************************************************)
(* getReporter: the composite reporter and its member reporters.  The      *)
(* arguments of a hook are opaque and stand for themselves.                *)
(***************************************************************************)
MaxReporters == 2
MaxHookCalls == 2

(* the hooks that the callers of a MainReporter call, with their arguments *)
HookArguments ==
    [error |-> <<"error">>,
     initErrors |-> <<"errors">>,
     log |-> <<"log">>,
     reportStart |-> <<"timings">>,
     resultEnd |-> <<"result", "baseUrl">>,
     resultReceived |-> <<"result">>,
     runEnd |-> <<"summary", "baseUrl">>,
     testEnd |-> <<"test", "results", "baseUrl", "locationNames", "failOnCriticalErrors",
                   "failOnTimeout">>,
     testTrigger |-> <<"test", "testId", "executionRule", "config">>,
     testWait |-> <<"test">>,
     testsWait |-> <<"tests">>]

Hooks == DOMAIN HookArguments

(* the properties of the object that getReporter returns, each an arrow    *)
(* function, with the parameters it declares                               *)
CompositeHooks ==
    [error |-> <<"error">>,
     initErrors |-> <<"errors">>,
     log |-> <<"log">>,
     reportStart |-> <<"timings">>,
     runEnd |-> <<"summary">>,
     testEnd |-> <<"test", "results", "baseUrl", "locationNames", "failOnCriticalErrors",
                   "failOnTimeout">>,
     testTrigger |-> <<"test", "testId", "executionRule", "config">>,
     testWait |-> <<"test">>,
     testsWait |-> <<"tests">>]

(* the arguments a hook of the composite passes on: those bound to its     *)
(* parameters                                                              *)
Forwarded(hook, arguments) ==
    SubSeq(arguments, 1, IF Len(arguments) < Len(CompositeHooks[hook])
                         THEN Len(arguments) ELSE Len(CompositeHooks[hook]))

(* member reporters: one implementing every hook, one implementing some,   *)
(* one implementing none; a member may throw from the hooks it implements  *)
MemberHooks == {Hooks, {"error", "log", "resultEnd", "runEnd", "testTrigger"}, {}}

Members == [implements : MemberHooks, throws : BOOLEAN]

ReporterLists == UNION {[1..n -> Members] : n \in 0..MaxReporters}

Invocation(call, member, hook, arguments, threw) ==
    [call |-> call, member |-> member, hook |-> hook, args |-> arguments, threw |-> threw]

(* the for loop of a hook over the members from the last to the first *)
RECURSIVE Dispatch_Reversed(_, _, _, _, _, _)
Dispatch_Reversed(members, k, call, hook, arguments, made) ==
    LET j == Len(members) + 1 - k
    IN  IF k > Len(members) THEN [made |-> made, outcome |-> "returned"]
        ELSE IF hook \notin members[j].implements
        THEN Dispatch_Reversed(members, k + 1, call, hook, arguments, made)
        ELSE IF members[j].throws
        THEN [made |-> Append(made, Invocation(call, j, hook, arguments, TRUE)),
              outcome |-> "ReporterError"]
        ELSE Dispatch_Reversed(members, k + 1, call, hook, arguments,
                               Append(made, Invocation(call, j, hook, arguments, FALSE)))

(* the for loop of a hook, from member k on: an exception of a member      *)
(* leaves the loop and the hook                                            *)
RECURSIVE Dispatch(_, _, _, _, _, _)
Dispatch(members, k, call, hook, arguments, made) ==
    IF k > Len(members) THEN [made |-> made, outcome |-> "returned"]
    ELSE IF hook \notin members[k].implements
    THEN Dispatch(members, k + 1, call, hook, arguments, made)
    ELSE IF members[k].throws
    THEN [made |-> Append(made, Invocation(call, k, hook, arguments, TRUE)),
          outcome |-> "ReporterError"]
    ELSE Dispatch(members, k + 1, call, hook, arguments,
                  Append(made, Invocation(call, k, hook, arguments, FALSE)))

InitReporter ==
    /\ PollingIdle
    /\ UrlIdle
    /\ GitIdle
    /\ RunIdle
    /\ RuleIdle
    /\ LookupIdle
    /\ ClassifierIdle
    /\ RetryIdle
    /\ reporters \in ReporterLists
    /\ hookCalls = <<>>
    /\ invocations = <<>>
    /\ outcomes = <<>>

(* a caller calls a hook that the composite has: lines 403-465 *)
CallHook(hook) ==
    /\ Len(hookCalls) < MaxHookCalls
    /\ hook \in DOMAIN CompositeHooks
    /\ LET call == Len(hookCalls) + 1
           dispatched == Dispatch(reporters, 1, call, hook,
                                  Forwarded(hook, HookArguments[hook]), <<>>)
       IN  /\ hookCalls' = Append(hookCalls, Call(hook, HookArguments[hook]))
           /\ invocations' = invocations \o dispatched.made
           /\ outcomes' = Append(outcomes, dispatched.outcome)
    /\ UNCHANGED <<pollingVars, urlVars, gitVars, runVars, ruleVars, lookupVars, classifierVars, retryVars, reporters>>

(* a caller calls a hook that the composite lacks: a TypeError *)
CallMissingHook(hook) ==
    /\ Len(hookCalls) < MaxHookCalls
    /\ hook \notin DOMAIN CompositeHooks
    /\ hookCalls' = Append(hookCalls, Call(hook, HookArguments[hook]))
    /\ outcomes' = Append(outcomes, "TypeError")
    /\ UNCHANGED <<pollingVars, urlVars, gitVars, runVars, ruleVars, lookupVars, classifierVars, retryVars, reporters, invocations>>

NextReporter ==
    \/ \E hook \in Hooks : CallHook(hook)
    \/ \E hook \in Hooks : CallMissingHook(hook)

SpecReporter == InitReporter /\ [][NextReporter]_vars

(***************************************************************************)
(* retry.  func and shouldRetryAfterWait are the caller's: func ends as    *)
(* the model chooses, and shouldRetryAfterWait returns undefined, zero or  *)
(* a positive number of milliseconds, as the model chooses, until          *)
(* MaxRetries retries have been made.                                      *)
(***************************************************************************)
MaxRetries == 2

FuncErrors == {[name |-> "AxiosError", status |-> Some(502)],
               [name |-> "AxiosError", status |-> Some(404)]}

FuncValue == "value"

(* what shouldRetryAfterWait may return *)
Waiters(retriesSoFar) ==
    {Undefined, Some(0)} \cup (IF retriesSoFar < MaxRetries THEN {Some(500), Some(1000)} ELSE {})

(* if (waiter), for an optional number *)
Truthy(waiter) == waiter # Undefined /\ waiter[1] # 0

InitRetry ==
    /\ PollingIdle
    /\ UrlIdle
    /\ GitIdle
    /\ RunIdle
    /\ RuleIdle
    /\ LookupIdle
    /\ ClassifierIdle
    /\ ReporterIdle
    /\ retries = 0
    /\ attempts = <<>>
    /\ decisions = <<>>
    /\ waits = <<>>
    /\ retryPc = "start"
    /\ retryReturned = Undefined
    /\ retryThrown = Null

(* lines 549-551 and 563: retry calls trier(), which calls func *)
Retry ==
    /\ retryPc = "start"
    /\ retries' = 0
    /\ retryPc' = "running"
    /\ UNCHANGED <<pollingVars, urlVars, gitVars, runVars, ruleVars, lookupVars, classifierVars, reporterVars,
                   attempts, decisions, waits, retryReturned, retryThrown>>

(* line 551: func is fulfilled *)
FuncFulfilled ==
    /\ retryPc = "running"
    /\ attempts' = Append(attempts, "fulfilled")
    /\ retryReturned' = Some(FuncValue)
    /\ retryPc' = "done"
    /\ UNCHANGED <<pollingVars, urlVars, gitVars, runVars, ruleVars, lookupVars, classifierVars, reporterVars,
                   retries, decisions, waits, retryThrown>>

(* lines 552-560: func is rejected *)
FuncRejected ==
    /\ retryPc = "running"
    /\ \E e \in FuncErrors, waiter \in Waiters(retries) :
          /\ attempts' = Append(attempts, "rejected")
          /\ decisions' = Append(decisions, [retries |-> retries, error |-> e, waiter |-> waiter])
          /\ IF Truthy(waiter)
             THEN /\ waits' = Append(waits, waiter[1])
                  /\ retryPc' = "waiting"
                  /\ UNCHANGED retryThrown
             ELSE /\ retryThrown' = e
                  /\ retryPc' = "thrown"
                  /\ UNCHANGED waits
    /\ UNCHANGED <<pollingVars, urlVars, gitVars, runVars, ruleVars, lookupVars, classifierVars, reporterVars,
                   retries, retryReturned>>

(* lines 555-557 calling trier(retries) *)
WaitOver_SameCount ==
    /\ retryPc = "waiting"
    /\ retries' = retries
    /\ retryPc' = "running"
    /\ UNCHANGED <<pollingVars, urlVars, gitVars, runVars, ruleVars, lookupVars, classifierVars, reporterVars,
                   attempts, decisions, waits, retryReturned, retryThrown>>

(* lines 555-557: the wait is over and trier(retries + 1) calls func *)
WaitOver ==
    /\ retryPc = "waiting"
    /\ retries' = retries + 1
    /\ retryPc' = "running"
    /\ UNCHANGED <<pollingVars, urlVars, gitVars, runVars, ruleVars, lookupVars, classifierVars, reporterVars,
                   attempts, decisions, waits, retryReturned, retryThrown>>

NextRetry == Retry \/ FuncFulfilled \/ FuncRejected \/ WaitOver

SpecRetry == InitRetry /\ [][NextRetry]_vars

(***************************************************************************)
(* setCiTriggerApp and runTests                                            *)
(***************************************************************************)
TriggerApps == {"github_action", "synthetics_ci_github_action"}

(* what getCIMetadata of helpers/ci may return: nothing outside a CI, else *)
(* the metadata of the CI                                                  *)
CIMetadatas ==
    {Undefined,
     Some([ci |-> [pipeline |-> [url |-> "pipeline-url"], provider |-> [name |-> "github"]],
           git |-> [branch |-> "main", commit_sha |-> "sha"]])}

(* {...defaults, ...ciMetadata, trigger_app}: spreading undefined adds nothing *)
SyntheticsMetadata(ciMetadata, triggerApp) ==
    Spread(Spread([ci |-> [job |-> EmptyObject, pipeline |-> EmptyObject,
                           provider |-> EmptyObject, stage |-> EmptyObject],
                   git |-> [commit |-> [author |-> EmptyObject, committer |-> EmptyObject]]],
                  IF ciMetadata = Undefined THEN EmptyObject ELSE ciMetadata[1]),
           [trigger_app |-> triggerApp])

(* the payloads runTests is given: those of found tests *)
TestPayloads == {[executionRule |-> ExecutionRule.BLOCKING, public_id |-> id] : id \in PublicIds}

TestPayloadLists == UNION {[1..n -> TestPayloads] : n \in 0..MaxConfigs}

(* the errors api.triggerTests may fail with: an HTTP response with a      *)
(* status, or no response at all                                           *)
TriggerErrors ==
    {[name |-> "AxiosError", message |-> "Request failed", response |-> Some([status |-> 502])],
     [name |-> "AxiosError", message |-> "Request failed", response |-> Some([status |-> 403])],
     [name |-> "AxiosError", message |-> "Network Error", response |-> Undefined]}

(* formatBackendErrors of ./api, for a failure without a list of errors in *)
(* the response body                                                       *)
formatBackendErrors(error) == error.message

(* Array.prototype.join(',') over strings *)
RECURSIVE Join(_)
Join(strings) ==
    IF Len(strings) = 0 THEN <<>>
    ELSE IF Len(strings) = 1 THEN strings[1]
    ELSE strings[1] \o <<",">> \o Join(Tail(strings))

(* `[${testIds}] Failed to trigger tests: ${errorMessage}\n` *)
TriggerFailedMessage(testIds, errorMessage) ==
    <<"[">> \o testIds \o <<"] Failed to trigger tests: ", errorMessage, "\n">>

EndpointError(message, status) == [name |-> "EndpointError", message |-> message, status |-> status]

(* reading a property of undefined *)
TypeError == [name |-> "TypeError"]

InitRun ==
    /\ PollingIdle
    /\ UrlIdle
    /\ GitIdle
    /\ RuleIdle
    /\ LookupIdle
    /\ ClassifierIdle
    /\ ReporterIdle
    /\ RetryIdle
    /\ ciTriggerApp = "npm_package"
    /\ testsToTrigger \in TestPayloadLists
    /\ triggerRequests = <<>>
    /\ runPc = "start"
    /\ runReturned = Null
    /\ runThrown = Null

(* lines 95-97 *)
SetCiTriggerApp(source) ==
    /\ runPc # "idle"
    /\ ciTriggerApp # source
    /\ ciTriggerApp' = source
    /\ UNCHANGED <<pollingVars, urlVars, gitVars, ruleVars, lookupVars, classifierVars, reporterVars, retryVars,
                   testsToTrigger, triggerRequests, runPc, runReturned, runThrown>>

(* lines 521-534: the request is made *)
RunTests ==
    /\ runPc = "start"
    /\ \E ciMetadata \in CIMetadatas :
          triggerRequests' = Append(triggerRequests,
                                    [tests |-> testsToTrigger,
                                     metadata |-> SyntheticsMetadata(ciMetadata, ciTriggerApp)])
    /\ runPc' = "triggering"
    /\ UNCHANGED <<pollingVars, urlVars, gitVars, ruleVars, lookupVars, classifierVars, reporterVars, retryVars,
                   ciTriggerApp, testsToTrigger, runReturned, runThrown>>

(* line 534: api.triggerTests is fulfilled *)
TriggerFulfilled ==
    /\ runPc = "triggering"
    /\ runReturned' = [triggered_check_ids |-> [i \in 1..Len(testsToTrigger) |->
                                                   testsToTrigger[i].public_id]]
    /\ runPc' = "done"
    /\ UNCHANGED <<pollingVars, urlVars, gitVars, ruleVars, lookupVars, classifierVars, reporterVars, retryVars,
                   ciTriggerApp, testsToTrigger, triggerRequests, runThrown>>

(* lines 535-540: api.triggerTests is rejected *)
TriggerRejected ==
    /\ runPc = "triggering"
    /\ \E e \in TriggerErrors :
          LET errorMessage == formatBackendErrors(e)
              testIds == Join([i \in 1..Len(testsToTrigger) |-> testsToTrigger[i].public_id])
          IN  runThrown' = IF e.response = Undefined
                           THEN TypeError
                           ELSE EndpointError(TriggerFailedMessage(testIds, errorMessage),
                                              e.response[1].status)
    /\ runPc' = "thrown"
    /\ UNCHANGED <<pollingVars, urlVars, gitVars, ruleVars, lookupVars, classifierVars, reporterVars, retryVars,
                   ciTriggerApp, testsToTrigger, triggerRequests, runReturned>>

NextRun ==
    \/ \E source \in TriggerApps : SetCiTriggerApp(source)
    \/ RunTests
    \/ TriggerFulfilled
    \/ TriggerRejected

SpecRun == InitRun /\ [][NextRun]_vars

(***************************************************************************)
(* getUserGitMetadata of helpers/user-provided-git.ts.  The git refs are   *)
(* sequences of characters.                                                *)
(***************************************************************************)
(* String.prototype.includes *)
Includes(s, sub) == \E i \in 1..(Len(s) - Len(sub) + 1) : SubSeq(s, i, i + Len(sub) - 1) = sub

StartsWith(s, prefix) == Len(prefix) <= Len(s) /\ SubSeq(s, 1, Len(prefix)) = prefix

OriginTags == <<"o", "r", "i", "g", "i", "n", "/", "t", "a", "g", "s">>
RefsHeadsTags == <<"r", "e", "f", "s", "/", "h", "e", "a", "d", "s", "/", "t", "a", "g", "s">>

(* the parts of a ref that normalizeRef removes *)
RefParts == {<<"o", "r", "i", "g", "i", "n", "/">>, <<"r", "e", "f", "s", "/", "h", "e", "a", "d", "s", "/">>, <<"t", "a", "g", "s", "/">>}

RECURSIVE RemoveRefParts(_)
RemoveRefParts(s) ==
    IF s = <<>> THEN <<>>
    ELSE IF \E part \in RefParts : StartsWith(s, part)
    THEN LET part == CHOOSE x \in RefParts : StartsWith(s, x)
         IN  RemoveRefParts(SubSeq(s, Len(part) + 1, Len(s)))
    ELSE <<Head(s)>> \o RemoveRefParts(Tail(s))

(* normalizeRef of helpers/utils: nothing for no ref or an empty one, else *)
(* the ref without origin/, refs/heads/ and tags/                          *)
normalizeRef(ref) ==
    IF ref = Undefined \/ ref = Some(<<>>) THEN ref ELSE Some(RemoveRefParts(ref[1]))

(* removeEmptyValues of helpers/utils: the properties that are set and not *)
(* the empty string                                                        *)
removeEmptyValues(tags) ==
    [k \in {key \in DOMAIN tags : tags[key] # Undefined /\ tags[key] # Some(<<>>)} |-> tags[k][1]]

(* the values of DD_GIT_BRANCH *)
BranchRefs ==
    {<<"m", "a", "i", "n">>,
     <<"r", "e", "f", "s", "/", "h", "e", "a", "d", "s", "/", "m", "a", "i", "n">>,
     <<"o", "r", "i", "g", "i", "n", "/", "d", "e", "v">>,
     <<"r", "e", "f", "s", "/", "t", "a", "g", "s", "/", "v", "1">>,
     <<"o", "r", "i", "g", "i", "n", "/", "t", "a", "g", "s", "/", "v", "1">>,
     <<"r", "e", "f", "s", "/", "h", "e", "a", "d", "s", "/", "t", "a", "g", "s", "/", "v", "1">>}

(* the values of DD_GIT_TAG *)
TagRefs == {<<"v", "2">>}

OptionalRefs(refs) == {Undefined, Some(<<>>)} \cup {Some(r) : r \in refs}

(* the other variables, set or not *)
OptionalTexts(text) == {Undefined, Some(text)}

Environments ==
    [DD_GIT_REPOSITORY_URL : OptionalTexts(<<"u", "r", "l">>),
     DD_GIT_COMMIT_SHA : OptionalTexts(<<"s", "h", "a">>),
     DD_GIT_BRANCH : OptionalRefs(BranchRefs),
     DD_GIT_TAG : OptionalRefs(TagRefs),
     DD_GIT_COMMIT_MESSAGE : {Undefined},
     DD_GIT_COMMIT_AUTHOR_NAME : {Undefined},
     DD_GIT_COMMIT_AUTHOR_EMAIL : {Undefined},
     DD_GIT_COMMIT_AUTHOR_DATE : {Undefined},
     DD_GIT_COMMIT_COMMITTER_NAME : {Undefined},
     DD_GIT_COMMIT_COMMITTER_EMAIL : {Undefined},
     DD_GIT_COMMIT_COMMITTER_DATE : {Undefined}]

(* lines 25-65 without the test of DD_GIT_TAG of lines 43-45 *)
getUserGitMetadata_KeepBranch(e) ==
    LET branch0 == normalizeRef(e.DD_GIT_BRANCH)
        tag0 == normalizeRef(e.DD_GIT_TAG)
        hasTag == e.DD_GIT_TAG # Undefined /\ e.DD_GIT_TAG # Some(<<>>)
        branch1 == branch0
        ofTags == /\ e.DD_GIT_BRANCH # Undefined
                  /\ (Includes(e.DD_GIT_BRANCH[1], OriginTags)
                      \/ Includes(e.DD_GIT_BRANCH[1], RefsHeadsTags))
        branch == IF ofTags THEN Undefined ELSE branch1
        tag == IF ofTags THEN normalizeRef(e.DD_GIT_BRANCH) ELSE tag0
    IN  removeEmptyValues(
           [git_repository_url |-> e.DD_GIT_REPOSITORY_URL,
            git_branch |-> branch,
            git_commit_sha |-> e.DD_GIT_COMMIT_SHA,
            git_tag |-> tag,
            git_commit_message |-> e.DD_GIT_COMMIT_MESSAGE,
            git_commit_committer_date |-> e.DD_GIT_COMMIT_COMMITTER_DATE,
            git_commit_committer_email |-> e.DD_GIT_COMMIT_COMMITTER_EMAIL,
            git_commit_committer_name |-> e.DD_GIT_COMMIT_COMMITTER_NAME,
            git_commit_author_date |-> e.DD_GIT_COMMIT_AUTHOR_DATE,
            git_commit_author_email |-> e.DD_GIT_COMMIT_AUTHOR_EMAIL,
            git_commit_author_name |-> e.DD_GIT_COMMIT_AUTHOR_NAME])

(* lines 25-65; the keys GIT_BRANCH, GIT_TAG, ... of ./tags are written    *)
(* git_branch, git_tag, ...                                                *)
getUserGitMetadata(e) ==
    LET branch0 == normalizeRef(e.DD_GIT_BRANCH)
        tag0 == normalizeRef(e.DD_GIT_TAG)
        hasTag == e.DD_GIT_TAG # Undefined /\ e.DD_GIT_TAG # Some(<<>>)
        branch1 == IF hasTag THEN Undefined ELSE branch0
        ofTags == /\ e.DD_GIT_BRANCH # Undefined
                  /\ (Includes(e.DD_GIT_BRANCH[1], OriginTags)
                      \/ Includes(e.DD_GIT_BRANCH[1], RefsHeadsTags))
        branch == IF ofTags THEN Undefined ELSE branch1
        tag == IF ofTags THEN normalizeRef(e.DD_GIT_BRANCH) ELSE tag0
    IN  removeEmptyValues(
           [git_repository_url |-> e.DD_GIT_REPOSITORY_URL,
            git_branch |-> branch,
            git_commit_sha |-> e.DD_GIT_COMMIT_SHA,
            git_tag |-> tag,
            git_commit_message |-> e.DD_GIT_COMMIT_MESSAGE,
            git_commit_committer_date |-> e.DD_GIT_COMMIT_COMMITTER_DATE,
            git_commit_committer_email |-> e.DD_GIT_COMMIT_COMMITTER_EMAIL,
            git_commit_committer_name |-> e.DD_GIT_COMMIT_COMMITTER_NAME,
            git_commit_author_date |-> e.DD_GIT_COMMIT_AUTHOR_DATE,
            git_commit_author_email |-> e.DD_GIT_COMMIT_AUTHOR_EMAIL,
            git_commit_author_name |-> e.DD_GIT_COMMIT_AUTHOR_NAME])

InitGit ==
    /\ PollingIdle
    /\ UrlIdle
    /\ RuleIdle
    /\ LookupIdle
    /\ ClassifierIdle
    /\ ReporterIdle
    /\ RetryIdle
    /\ RunIdle
    /\ env \in Environments
    /\ gitMetadata = Undefined

GetUserGitMetadata ==
    /\ env # Null
    /\ gitMetadata = Undefined
    /\ gitMetadata' = Some(getUserGitMetadata(env))
    /\ UNCHANGED <<pollingVars, urlVars, runVars, ruleVars, lookupVars, classifierVars, reporterVars,
                   retryVars, env>>

NextGit == GetUserGitMetadata

SpecGit == InitGit /\ [][NextGit]_vars

(***************************************************************************)
(* handleConfig with a startUrl: template, parseUrlVariables and           *)
(* warnOnReservedEnvVarNames.  The strings are sequences of characters, a  *)
(* context is the sequence of its entries in the order of its keys.        *)
(***************************************************************************)
(* \s of TEMPLATE_REGEX, for strings whose only white space is the space *)
Whitespace == {" "}

Braces == {"{", "}"}

RECURSIVE TrimStart(_)
TrimStart(s) == IF s # <<>> /\ Head(s) \in Whitespace THEN TrimStart(Tail(s)) ELSE s

RECURSIVE TrimEnd(_)
TrimEnd(s) ==
    IF s # <<>> /\ s[Len(s)] \in Whitespace THEN TrimEnd(SubSeq(s, 1, Len(s) - 1)) ELSE s

(* line 40: the end of the match of TEMPLATE_REGEX that starts at the head *)
(* of s, 0 when there is none                                              *)
MatchEnd(s) ==
    IF Len(s) >= 4 /\ s[1] = "{" /\ s[2] = "{" /\ \E j \in 3..Len(s) : s[j] \in Braces
    THEN LET j == CHOOSE x \in 3..Len(s) :
                      s[x] \in Braces /\ \A y \in 3..(x - 1) : s[y] \notin Braces
         IN  IF s[j] = "}" /\ j < Len(s) /\ s[j + 1] = "}" THEN j + 1 ELSE 0
    ELSE 0

(* p1 of the match that ends at matchEnd *)
MatchName(s, matchEnd) == TrimEnd(TrimStart(SubSeq(s, 3, matchEnd - 2)))

ContextHas(context, name) == \E i \in 1..Len(context) : context[i].name = name

ContextGet(context, name) ==
    context[CHOOSE i \in 1..Len(context) : context[i].name = name].value

(* context[name] = value: a new key comes last, a key that is there keeps  *)
(* its place                                                               *)
ContextSet(context, name, value) ==
    IF ContextHas(context, name)
    THEN [i \in 1..Len(context) |->
             IF context[i].name = name THEN [name |-> name, value |-> value] ELSE context[i]]
    ELSE Append(context, [name |-> name, value |-> value])

(* the string a value is replaced with: String(undefined) is 'undefined' *)
StringOf(value) == IF value = Undefined THEN <<"u", "n", "d", "e", "f", "i", "n", "e", "d">> ELSE value[1]

(* lines 42-43 *)
RECURSIVE template(_, _)
template(st, context) ==
    IF st = <<>> THEN <<>>
    ELSE LET matchEnd == MatchEnd(st)
         IN  IF matchEnd = 0
             THEN <<Head(st)>> \o template(Tail(st), context)
             ELSE LET match == SubSeq(st, 1, matchEnd)
                      p1 == MatchName(st, matchEnd)
                      replaced == IF ContextHas(context, p1)
                                  THEN StringOf(ContextGet(context, p1))
                                  ELSE match
                  IN  replaced \o template(SubSeq(st, matchEnd + 1, Len(st)), context)

(* lines 132-143 *)
URL_VARIABLES ==
    <<<<"D", "O", "M", "A", "I", "N">>,
      <<"H", "A", "S", "H">>,
      <<"H", "O", "S", "T">>,
      <<"H", "O", "S", "T", "N", "A", "M", "E">>,
      <<"O", "R", "I", "G", "I", "N">>,
      <<"P", "A", "R", "A", "M", "S">>,
      <<"P", "A", "T", "H", "N", "A", "M", "E">>,
      <<"P", "O", "R", "T">>,
      <<"P", "R", "O", "T", "O", "C", "O", "L">>,
      <<"S", "U", "B", "D", "O", "M", "A", "I", "N">>>>

(* line 39: the end of the match of SUBDOMAIN_REGEX, a dot that is         *)
(* followed, with no slash between, by a dot and two characters or more;   *)
(* 0 when there is none                                                    *)
SubdomainDots(hostname) ==
    {i \in 1..Len(hostname) :
        /\ hostname[i] = "."
        /\ \E j \in (i + 1)..(Len(hostname) - 2) :
              /\ hostname[j] = "."
              /\ \A k \in (i + 1)..(j - 1) : hostname[k] # "/"}

(* hostname.match(SUBDOMAIN_REGEX): the group 1 of the match, if any *)
SubdomainMatch(hostname) ==
    IF SubdomainDots(hostname) = {} THEN Undefined
    ELSE LET i == CHOOSE x \in SubdomainDots(hostname) : \A y \in SubdomainDots(hostname) : x <= y
         IN  Some(SubSeq(hostname, 1, i - 1))

(* s.replace(sub, ''), sub a string *)
RemoveFirst(s, sub) ==
    IF ~Includes(s, sub) THEN s
    ELSE LET i == CHOOSE x \in 1..Len(s) :
                      /\ SubSeq(s, x, x + Len(sub) - 1) = sub
                      /\ \A y \in 1..(x - 1) : SubSeq(s, y, y + Len(sub) - 1) # sub
         IN  SubSeq(s, 1, i - 1) \o SubSeq(s, i + Len(sub), Len(s))

(* the URLs of the tests and what new URL(url) makes of them *)
UrlObjects ==
    {[href |-> <<"h", "t", "t", "p", "s", ":", "/", "/", "a", ".", "b", ".", "i", "o", "/", "p", "?", "q">>,
      protocol |-> <<"h", "t", "t", "p", "s", ":">>, hostname |-> <<"a", ".", "b", ".", "i", "o">>, host |-> <<"a", ".", "b", ".", "i", "o">>, port |-> <<>>,
      origin |-> <<"h", "t", "t", "p", "s", ":", "/", "/", "a", ".", "b", ".", "i", "o">>, pathname |-> <<"/", "p">>, search |-> <<"?", "q">>, hash |-> <<>>],
     [href |-> <<"h", "t", "t", "p", ":", "/", "/", "b", ".", "i", "o", ":", "8", "1", "/", "#", "h">>,
      protocol |-> <<"h", "t", "t", "p", ":">>, hostname |-> <<"b", ".", "i", "o">>, host |-> <<"b", ".", "i", "o", ":", "8", "1">>, port |-> <<"8", "1">>,
      origin |-> <<"h", "t", "t", "p", ":", "/", "/", "b", ".", "i", "o", ":", "8", "1">>, pathname |-> <<"/">>, search |-> <<>>, hash |-> <<"#", "h">>]}

(* a URL of a test that new URL(url) throws on *)
InvalidUrl == <<"{", "{", "X", "}", "}", "/", "p">>

TestUrls == {o.href : o \in UrlObjects} \cup {InvalidUrl}

(* new URL(url), nothing when it throws *)
NewURL(url) ==
    IF \E o \in UrlObjects : o.href = url
    THEN Some(CHOOSE o \in UrlObjects : o.href = url)
    ELSE Undefined

RECURSIVE JoinNames(_)
JoinNames(strings) ==
    IF Len(strings) = 0 THEN <<>>
    ELSE IF Len(strings) = 1 THEN strings[1]
    ELSE strings[1] \o <<",", " ">> \o JoinNames(Tail(strings))

RECURSIVE ReservedNames(_)
ReservedNames(context) ==
    IF context = <<>> THEN <<>>
    ELSE IF Head(context).name \in Range(URL_VARIABLES)
    THEN <<Head(context).name>> \o ReservedNames(Tail(context))
    ELSE ReservedNames(Tail(context))

(* lines 145-160: the calls made on reporter *)
warnOnReservedEnvVarNames(context) ==
    LET usedEnvVarNames == ReservedNames(context)
    IN  IF Len(usedEnvVarNames) > 0
        THEN <<Call("log", [text |-> "Detected reserved environment variables",
                            names |-> JoinNames(usedEnvVarNames),
                            plural |-> Len(usedEnvVarNames) > 1])>>
        ELSE <<>>

(* lines 99-130: the context returned and the calls made on reporter *)
parseUrlVariables(url, e) ==
    LET context == ContextSet(e, <<"U", "R", "L">>, Some(url))
        objUrl == NewURL(url)
    IN  IF objUrl = Undefined
        THEN [context |-> context,
              calls |-> <<Call("error", [text |-> "The start url contains variables, CI overrides will be ignored",
                                         url |-> url])>>]
        ELSE LET subdomainMatch == SubdomainMatch(objUrl[1].hostname)
                 domain == IF subdomainMatch # Undefined
                           THEN RemoveFirst(objUrl[1].hostname, subdomainMatch[1] \o <<".">>)
                           ELSE objUrl[1].hostname
                 c1 == ContextSet(context, <<"D", "O", "M", "A", "I", "N">>, Some(domain))
                 c2 == ContextSet(c1, <<"H", "A", "S", "H">>, Some(objUrl[1].hash))
                 c3 == ContextSet(c2, <<"H", "O", "S", "T">>, Some(objUrl[1].host))
                 c4 == ContextSet(c3, <<"H", "O", "S", "T", "N", "A", "M", "E">>, Some(objUrl[1].hostname))
                 c5 == ContextSet(c4, <<"O", "R", "I", "G", "I", "N">>, Some(objUrl[1].origin))
                 c6 == ContextSet(c5, <<"P", "A", "R", "A", "M", "S">>, Some(objUrl[1].search))
                 c7 == ContextSet(c6, <<"P", "A", "T", "H", "N", "A", "M", "E">>, Some(objUrl[1].pathname))
                 c8 == ContextSet(c7, <<"P", "O", "R", "T">>, Some(objUrl[1].port))
                 c9 == ContextSet(c8, <<"P", "R", "O", "T", "O", "C", "O", "L">>, Some(objUrl[1].protocol))
             IN  [context |-> ContextSet(c9, <<"S", "U", "B", "D", "O", "M", "A", "I", "N">>, subdomainMatch),
                  calls |-> warnOnReservedEnvVarNames(context)]

(* the values of config.startUrl *)
StartUrls ==
    {<<>>,
     <<"{", "{", "P", "R", "O", "T", "O", "C", "O", "L", "}", "}", "/", "/", "{", "{", " ", "S", "U", "B", "D", "O", "M", "A", "I", "N", " ", "}", "}", ".", "s", ".", "{", "{", "D", "O", "M", "A", "I", "N", "}", "}">>,
     <<"{", "{", "U", "R", "L", "}", "}", "{", "{", " ", "X", " ", "}", "}">>,
     <<"{", "{", " ", "Y", " ", "}", "}", "/", "{", "{", "}", "z">>,
     <<"{", "{", "P", "O", "R", "T", "}", "}">>}

(* the override of handleConfig: none, without startUrl, or with one *)
UrlConfigs ==
    {Undefined, Some([pollingTimeout |-> POLLING_INTERVAL])}
    \cup {Some([startUrl |-> u]) : u \in StartUrls}

UrlTests ==
    {[public_id |-> IdA, type |-> "browser", subtype |-> Undefined, options |-> Undefined,
      config |-> [request |-> [url |-> u]]] : u \in TestUrls}
    \cup {[public_id |-> IdA, type |-> "api", subtype |-> Some(s), options |-> Undefined,
           config |-> [request |-> [url |-> u]]] : s \in {"http", "ssl"}, u \in TestUrls}

(* process.env *)
ProcessEnvs ==
    {<<>>,
     <<[name |-> <<"S", "U", "B", "D", "O", "M", "A", "I", "N">>, value |-> Some(<<"i", "g">>)]>>,
     <<[name |-> <<"U", "R", "L">>, value |-> Some(<<"i", "g">>)]>>,
     <<[name |-> <<"X">>, value |-> Some(<<"x">>)]>>,
     <<[name |-> <<"P", "O", "R", "T">>, value |-> Some(<<"8">>)], [name |-> <<"D", "O", "M", "A", "I", "N">>, value |-> Some(<<"i", "g">>)]>>}

InitUrl ==
    /\ PollingIdle
    /\ RuleIdle
    /\ LookupIdle
    /\ ClassifierIdle
    /\ ReporterIdle
    /\ RetryIdle
    /\ RunIdle
    /\ GitIdle
    /\ processEnv \in ProcessEnvs
    /\ urlTest \in UrlTests
    /\ urlConfig \in UrlConfigs
    /\ handled = Undefined
    /\ configCalls = <<>>

(* lines 47-93 *)
HandleConfig ==
    /\ urlTest # Null
    /\ handled = Undefined
    /\ LET handledConfig == handleConfig(urlTest, urlTest.public_id, urlConfig)
           startUrl == IF urlConfig = Undefined THEN Undefined ELSE ObjGet(urlConfig[1], "startUrl")
       IN  IF /\ urlConfig # Undefined
              /\ DOMAIN urlConfig[1] # {}
              /\ (urlTest.type = "browser" \/ urlTest.subtype = Some("http"))
              /\ startUrl # Undefined
              /\ startUrl[1] # <<>>
           THEN LET parsed == parseUrlVariables(urlTest.config.request.url, processEnv)
                    deprecated == \E i \in 1..Len(URL_VARIABLES) :
                                      Includes(startUrl[1], URL_VARIABLES[i])
                IN  /\ configCalls' =
                          configCalls \o parsed.calls
                          \o (IF deprecated
                              THEN <<Call("error", [text |-> "[DEPRECATION] The usage of URL variables is deprecated"])>>
                              ELSE <<>>)
                    /\ handled' = Some(Spread(handledConfig,
                                              [startUrl |-> template(startUrl[1], parsed.context)]))
           ELSE /\ configCalls' = configCalls
                /\ handled' = Some(handledConfig)
    /\ UNCHANGED <<pollingVars, gitVars, runVars, ruleVars, lookupVars, classifierVars,
                   reporterVars, retryVars, processEnv, urlTest, urlConfig>>

NextUrl == HandleConfig

SpecUrl == InitUrl /\ [][NextUrl]_vars

(***************************************************************************)
(* Vocabulary of the properties.                                           *)
(***************************************************************************)
Terminal(tr) == tr.result # Null

(* a result made by createFailingResult with the given error *)
IsSynthesised(tr, errorMessage) ==
    /\ tr.result # Null
    /\ tr.result = createFailingResult(errorMessage, tr.result_id, tr.device, tr.location, tunnel)

IsPolled(tr) ==
    /\ tr.result # Null
    /\ tr.result.timestamp = 1

(* the positions of the trigger responses given for a public id *)
ResponsesOf(publicId) ==
    {i \in 1..Len(triggerResponses) : triggerResponses[i].public_id = publicId}

(* the entries of the returned mapping that answer trigger response i *)
ReturnedFor(i) ==
    LET publicId == triggerResponses[i].public_id
    IN  IF publicId \in DOMAIN returned
        THEN {k \in 1..Len(returned[publicId]) :
                 /\ returned[publicId][k] # Null
                 /\ returned[publicId][k].resultID = triggerResponses[i].result_id}
        ELSE {}

(***************************************************************************)
(* C1: whenever waitForResults returns, the mapping holds exactly one      *)
(* terminal PollResult per trigger response, under the response's          *)
(* public_id and with its result_id; and at every exit of the polling loop *)
(* (end of loop, deadline break, nothing-pending break) no trigger result  *)
(* is pending.                                                             *)
(***************************************************************************)
C1_OneResultPerResponse ==
    /\ pc \in {"bundle", "done"} =>
          /\ exitKind \in {"loop_end", "deadline", "nothing_pending"}
          /\ Len(triggerResults) = Len(triggerResponses)
          /\ \A i \in 1..Len(triggerResults) : Terminal(triggerResults[i])
    /\ pc = "done" =>
          /\ DOMAIN returned = {triggerResponses[i].public_id : i \in 1..Len(triggerResponses)}
          /\ \A i \in 1..Len(triggerResponses) : Cardinality(ReturnedFor(i)) = 1
          /\ \A publicId \in DOMAIN returned :
                Len(returned[publicId]) = Cardinality(ResponsesOf(publicId))

C1_Witness ==
    /\ pc = "done"
    /\ exitKind = "deadline"
    /\ Len(triggerResponses) = MaxResponses
    /\ \E i, j \in 1..Len(triggerResults) :
          /\ IsPolled(triggerResults[i])
          /\ IsSynthesised(triggerResults[j], ERRORS.TIMEOUT)

(***************************************************************************)
(* C2: a trigger result's terminal result is assigned exactly once: once a *)
(* trigger result is terminal, no later step replaces its result, whatever *)
(* result ids a poll response contains.                                    *)
(***************************************************************************)
C2_AssignedOnce ==
    [][\A i \in 1..Len(triggerResults) :
          Terminal(triggerResults[i]) => triggerResults'[i].result = triggerResults[i].result]_vars

(***************************************************************************)
(* C3: waitForResults always terminates (returns or throws) when every     *)
(* poll request completes and every wait ends, whatever the backend        *)
(* answers; the loop is left at the latest in the first iteration whose    *)
(* elapsed time is at least the largest pollingTimeout: no poll is         *)
(* requested and no wait is made in such an iteration.                     *)
(***************************************************************************)
LargestTimeout == SetMax({triggerResults[i].pollingTimeout : i \in 1..Len(triggerResults)})

C3_Terminates ==
    /\ <>(pc \in {"done", "thrown"})
    /\ [](pc \in {"poll", "polling", "waiting"} => pollingDuration < LargestTimeout)

C3_Witness ==
    /\ pc = "done"
    /\ exitKind = "deadline"
    /\ pollRequests >= 2
    /\ Len(triggerResults) = MaxResponses
    /\ \A i \in 1..Len(triggerResults) : IsSynthesised(triggerResults[i], ERRORS.TIMEOUT)

(***************************************************************************)
(* C4: a trigger result receives a synthesised TIMEOUT result in a step if *)
(* and only if the step is the timeout step of a loop iteration at whose   *)
(* start it is pending and the time elapsed since pollingStart is at least *)
(* its own pollingTimeout.                                                 *)
(***************************************************************************)
C4_TimeoutIffDue ==
    [][\A i \in 1..Len(triggerResults) :
          (/\ ~IsSynthesised(triggerResults[i], ERRORS.TIMEOUT)
           /\ IsSynthesised(triggerResults'[i], ERRORS.TIMEOUT))
          <=> (/\ pc = "timeout"
               /\ ~Terminal(triggerResults[i])
               /\ now - pollingStartDate >= triggerResults[i].pollingTimeout)]_vars

C4_Witness ==
    \E i, j \in 1..Len(triggerResults) :
       /\ IsSynthesised(triggerResults[i], ERRORS.TIMEOUT)
       /\ ~Terminal(triggerResults[j])
       /\ pc = "polling"

(***************************************************************************)
(* C5: once the keepAlive promise of a supplied tunnel has settled, by     *)
(* fulfilment or rejection, the liveness flag is false and stays false,    *)
(* and the tunnel step of the next iteration gives every trigger result    *)
(* still pending after the timeout step a result with error TUNNEL, passed *)
(* false and tunnel true; without a tunnel no TUNNEL result is made.       *)
(***************************************************************************)
C5_TunnelDown ==
    [][/\ (pc = "tunnel" /\ tunnel /\ keepAlive \in {"fulfilled", "rejected"}) =>
             \A i \in 1..Len(triggerResults) :
                ~Terminal(triggerResults[i]) =>
                   /\ IsSynthesised(triggerResults'[i], ERRORS.TUNNEL)
                   /\ triggerResults'[i].result.result.error = ERRORS.TUNNEL
                   /\ triggerResults'[i].result.result.passed = FALSE
                   /\ triggerResults'[i].result.result.tunnel = TRUE
       /\ keepAlive' \in {"fulfilled", "rejected"} => ~isTunnelConnected'
       /\ ~isTunnelConnected => ~isTunnelConnected'
       /\ ~tunnel =>
             /\ isTunnelConnected'
             /\ \A i \in 1..Len(triggerResults') :
                   ~IsSynthesised(triggerResults'[i], ERRORS.TUNNEL)]_vars

C5_Witness ==
    /\ tunnel
    /\ keepAlive = "fulfilled"
    /\ pc = "deadline"
    /\ \E i, j \in 1..Len(triggerResults) :
          /\ IsSynthesised(triggerResults[i], ERRORS.TUNNEL)
          /\ IsPolled(triggerResults[j])

(***************************************************************************)
(* C6: when a poll fails with a server-5xx error and failOnCriticalErrors  *)
(* is false, every trigger result pending at that poll gets a result with  *)
(* error ENDPOINT, every terminal one is left unchanged, the loop is left  *)
(* without an error, and no further poll request is issued.                *)
(***************************************************************************)
Swallowed(error) ==
    /\ error # Null
    /\ is5xxError(error)
    /\ ~failOnCriticalErrors

C6_EndpointFallback ==
    [][/\ (pc = "polling" /\ Swallowed(pollError')) =>
             /\ \A i \in 1..Len(triggerResults) :
                   IF Terminal(triggerResults[i])
                   THEN triggerResults'[i] = triggerResults[i]
                   ELSE IsSynthesised(triggerResults'[i], ERRORS.ENDPOINT)
             /\ pc' = "bundle"
             /\ thrown' = Null
       /\ Swallowed(pollError) =>
             /\ pc' = "done"
             /\ thrown' = Null
             /\ pollRequests' = pollRequests
             /\ inFlight' = 0]_vars

C6_Witness ==
    /\ pc = "done"
    /\ Swallowed(pollError)
    /\ \E i, j \in 1..Len(triggerResults) :
          /\ IsSynthesised(triggerResults[i], ERRORS.ENDPOINT)
          /\ IsPolled(triggerResults[j])

(***************************************************************************)
(* C7: when a poll fails with an error that is not server-5xx, or with a   *)
(* server-5xx error while failOnCriticalErrors is true, waitForResults     *)
(* rejects with that same error, makes no ENDPOINT result and returns no   *)
(* mapping.                                                                *)
(***************************************************************************)
C7_ErrorPropagated ==
    /\ (pollError # Null /\ ~Swallowed(pollError)) =>
          /\ pc = "thrown"
          /\ thrown = pollError
          /\ returned = Null
          /\ \A i \in 1..Len(triggerResults) :
                ~IsSynthesised(triggerResults[i], ERRORS.ENDPOINT)
    /\ pc = "thrown" => (pollError # Null /\ ~Swallowed(pollError))

C7_Witness ==
    /\ pc = "thrown"
    /\ is5xxError(thrown)
    /\ failOnCriticalErrors
    /\ pollRequests >= 2

(***************************************************************************)
(* C8: at most one poll request is in flight, and a poll request that      *)
(* follows another starts at least POLLING_INTERVAL ms after the earlier   *)
(* one completed.                                                          *)
(***************************************************************************)
C8_OnePollAtATime ==
    /\ inFlight <= 1
    /\ (pc = "polling") <=> (inFlight = 1)
    /\ (pc = "polling" /\ lastPollEnd # Undefined) =>
          now - lastPollEnd[1] >= POLLING_INTERVAL

C8_Witness ==
    /\ pc = "polling"
    /\ pollRequests >= 2
    /\ lastPollEnd # Undefined

(***************************************************************************)
(* C9: the pollingTimeout of the trigger result of every trigger response  *)
(* is the pollingTimeout override of a trigger config for that test, when  *)
(* it sets one, and the default timeout otherwise, whether the config's    *)
(* identifier is the bare public id or a longer identifier ending in it.   *)
(***************************************************************************)
ConfigsOf(publicId) ==
    {k \in 1..Len(triggerConfigs) : NormalizePublicId(triggerConfigs[k].id) = publicId}

C9_PollingTimeout ==
    pc = "loop" =>
       \A i \in 1..Len(triggerResponses) :
          LET configs == ConfigsOf(triggerResponses[i].public_id)
          IN  IF configs = {}
              THEN triggerResults[i].pollingTimeout = defaultTimeout
              ELSE triggerResults[i].pollingTimeout \in
                      {Coalesce(triggerConfigs[k].config.pollingTimeout, defaultTimeout) :
                          k \in configs}

(***************************************************************************)
(* C10: in the returned mapping the results under one public_id are in the *)
(* order of the trigger responses given for that public_id, whatever the   *)
(* order in which their terminal results were obtained.                    *)
(***************************************************************************)
RECURSIVE ResultIdsOf(_, _)
ResultIdsOf(responses, publicId) ==
    IF responses = <<>> THEN <<>>
    ELSE IF Head(responses).public_id = publicId
         THEN <<Head(responses).result_id>> \o ResultIdsOf(Tail(responses), publicId)
         ELSE ResultIdsOf(Tail(responses), publicId)

C10_ResponseOrder ==
    pc = "done" =>
       \A publicId \in DOMAIN returned :
          /\ \A k \in 1..Len(returned[publicId]) : returned[publicId][k] # Null
          /\ [k \in 1..Len(returned[publicId]) |-> returned[publicId][k].resultID]
                = ResultIdsOf(triggerResponses, publicId)

C10_Witness ==
    /\ pc = "done"
    /\ Len(triggerResponses) >= 2
    /\ triggerResponses[1].public_id = triggerResponses[2].public_id
    /\ IsSynthesised(triggerResults[1], ERRORS.TIMEOUT)
    /\ IsPolled(triggerResults[2])

(***************************************************************************)
(* C11: getExecutionRule returns the maximum of the override's rule and    *)
(* the test's rule under the order skipped > non_blocking > blocking, an   *)
(* undefined test rule counting as blocking; when the override sets no     *)
(* executionRule it returns the test's rule, or blocking when the test has *)
(* none.                                                                   *)
(***************************************************************************)
Strictness(rule) ==
    IF rule = "skipped" THEN 2 ELSE IF rule = "non_blocking" THEN 1 ELSE 0

RuleOfTest(t) ==
    IF t.options # Undefined /\ t.options[1].ci # Undefined
       /\ t.options[1].ci[1].executionRule # Undefined
    THEN t.options[1].ci[1].executionRule[1]
    ELSE "blocking"

OverrideSetsRule(override) == override # Undefined /\ "executionRule" \in DOMAIN override[1]

C11_StrictestRule ==
    executionRule # Undefined =>
       IF OverrideSetsRule(configOverride)
       THEN /\ executionRule[1] \in {configOverride[1].executionRule, RuleOfTest(test)}
            /\ Strictness(executionRule[1]) >= Strictness(configOverride[1].executionRule)
            /\ Strictness(executionRule[1]) >= Strictness(RuleOfTest(test))
       ELSE executionRule[1] = RuleOfTest(test)

C11_Witness ==
    /\ executionRule = Some("skipped")
    /\ OverrideSetsRule(configOverride)
    /\ configOverride[1].executionRule = "blocking"
    /\ RuleOfTest(test) = "skipped"

(***************************************************************************)
(* C12: getTestsToTrigger puts no payload whose resolved executionRule is  *)
(* skipped in overriddenTestsToTrigger, the list of payloads that runTests *)
(* submits.                                                                *)
(***************************************************************************)
C12_NoSkippedPayload ==
    \A k \in 1..Len(overriddenTestsToTrigger) :
       overriddenTestsToTrigger[k].executionRule # ExecutionRule.SKIPPED

(***************************************************************************)
(* C13: hasResultPassed follows the ordered decision list (1) unhealthy    *)
(* true or error ENDPOINT, with failOnCriticalErrors false: pass; (2) else *)
(* error TIMEOUT with failOnTimeout false: pass; (3) else the value of     *)
(* passed if it is set; (4) else fail if errorCode is set; (5) else pass.  *)
(* hasTestSucceeded is the conjunction of hasResultPassed over the poll    *)
(* results of the test.                                                    *)
(***************************************************************************)
Has(result, key) == key \in DOMAIN result

Critical(result) ==
    \/ (Has(result, "unhealthy") /\ result.unhealthy)
    \/ (Has(result, "error") /\ result.error = "ENDPOINT")

Rule1(result) == Critical(result) /\ ~policy.failOnCriticalErrors

Rule2(result) == Has(result, "error") /\ result.error = "TIMEOUT" /\ ~policy.failOnTimeout

C13_DecisionList ==
    /\ verdicts # Undefined =>
          \A i \in 1..Len(pollResults) :
             LET result == pollResults[i].result
                 verdict == verdicts[1][i]
             IN  /\ Rule1(result) => verdict
                 /\ (~Rule1(result) /\ Rule2(result)) => verdict
                 /\ (~Rule1(result) /\ ~Rule2(result) /\ Has(result, "passed")) =>
                       verdict = result.passed
                 /\ (~Rule1(result) /\ ~Rule2(result) /\ ~Has(result, "passed")
                     /\ Has(result, "errorCode")) => ~verdict
                 /\ (~Rule1(result) /\ ~Rule2(result) /\ ~Has(result, "passed")
                     /\ ~Has(result, "errorCode")) => verdict
    /\ (verdicts # Undefined /\ succeeded # Undefined) =>
          succeeded[1] = (\A i \in 1..Len(pollResults) : verdicts[1][i])

C13_Witness ==
    /\ verdicts # Undefined
    /\ succeeded = Some(FALSE)
    /\ Len(pollResults) = MaxResults
    /\ verdicts[1][1]
    /\ ~verdicts[1][Len(pollResults)]
    /\ Rule2(pollResults[1].result)

(***************************************************************************)
(* C14: hasResultPassed is monotone in its policy flags: for every result, *)
(* a verdict that is pass stays pass when failOnCriticalErrors or          *)
(* failOnTimeout is changed from true to false.                            *)
(***************************************************************************)
(* the policies obtained by changing flags of p from true to false *)
Relaxed(p) ==
    {q \in Policies : /\ q.failOnCriticalErrors => p.failOnCriticalErrors
                      /\ q.failOnTimeout => p.failOnTimeout}

C14_Monotone ==
    verdicts # Undefined =>
       \A i \in 1..Len(pollResults) :
          verdicts[1][i] =>
             \A q \in Relaxed(policy) :
                hasResultPassed(pollResults[i].result, q.failOnCriticalErrors, q.failOnTimeout)

C14_Witness ==
    /\ verdicts # Undefined
    /\ Len(pollResults) = 1
    /\ policy.failOnCriticalErrors
    /\ policy.failOnTimeout
    /\ verdicts[1][1]
    /\ Critical(pollResults[1].result)
    /\ Has(pollResults[1].result, "passed")

(***************************************************************************)
(* C15: a result synthesised by waitForResults with error TIMEOUT is       *)
(* classified by hasResultPassed as passed exactly when failOnTimeout is   *)
(* false, and one synthesised with error ENDPOINT exactly when             *)
(* failOnCriticalErrors is false, whatever the other flag.                 *)
(***************************************************************************)
C15_SynthesisedVerdicts ==
    \A i \in 1..Len(triggerResults) :
       \A q \in Policies :
          /\ IsSynthesised(triggerResults[i], ERRORS.TIMEOUT) =>
                (hasResultPassed(triggerResults[i].result.result, q.failOnCriticalErrors,
                                 q.failOnTimeout) <=> ~q.failOnTimeout)
          /\ IsSynthesised(triggerResults[i], ERRORS.ENDPOINT) =>
                (hasResultPassed(triggerResults[i].result.result, q.failOnCriticalErrors,
                                 q.failOnTimeout) <=> ~q.failOnCriticalErrors)

C15_Witness ==
    /\ pc = "done"
    /\ \E i, j \in 1..Len(triggerResults) :
          /\ IsSynthesised(triggerResults[i], ERRORS.TIMEOUT)
          /\ IsSynthesised(triggerResults[j], ERRORS.ENDPOINT)

(***************************************************************************)
(* C16: the composite reporter exposes every hook of the hook set (error,  *)
(* initErrors, log, reportStart, testTrigger, testWait, testsWait,         *)
(* resultReceived, resultEnd, testEnd, runEnd) and, for each call, invokes *)
(* the same hook with the same arguments exactly once on every member that *)
(* implements it, and nothing on the members that do not.                  *)
(***************************************************************************)
InvocationsOf(call, member) ==
    {k \in 1..Len(invocations) : invocations[k].call = call /\ invocations[k].member = member}

C16_FanOut ==
    \A call \in 1..Len(hookCalls) :
       \A member \in 1..Len(reporters) :
          IF hookCalls[call].hook \in reporters[member].implements
          THEN /\ Cardinality(InvocationsOf(call, member)) = 1
               /\ \A k \in InvocationsOf(call, member) :
                     /\ invocations[k].hook = hookCalls[call].hook
                     /\ invocations[k].args = hookCalls[call].args
          ELSE InvocationsOf(call, member) = {}

(***************************************************************************)
(* C17: for every hook call on the composite reporter, the members that    *)
(* implement the hook are invoked in their registration order, and a call  *)
(* is dispatched to all of them before the next call on the composite is   *)
(* dispatched.                                                             *)
(***************************************************************************)
Implementers(hook) == {m \in 1..Len(reporters) : hook \in reporters[m].implements}

InvokedBy(call) == {invocations[k].member : k \in {j \in 1..Len(invocations) : invocations[j].call = call}}

C18_ThrowIsolated ==
    \A k \in 1..Len(invocations) :
       invocations[k].threw =>
          \A member \in Implementers(invocations[k].hook) :
             member > invocations[k].member =>
                InvocationsOf(invocations[k].call, member) # {}

(***************************************************************************)
(* C19: retry calls decide (shouldRetryAfterWait) exactly once after each  *)
(* failed attempt, with the number of earlier failed attempts (0, 1, 2,    *)
(* ...) and that attempt's error; it invokes the action (func) again,      *)
(* after waiting the returned number of ms, exactly when decide returned a *)
(* positive number; when decide returns undefined or zero it rethrows that *)
(* same error without invoking the action again; a successful attempt      *)
(* returns its value without calling decide.                               *)
(***************************************************************************)
FailedAttempts == {k \in 1..Len(attempts) : attempts[k] = "rejected"}

Positive(waiter) == waiter # Undefined /\ waiter[1] > 0

(* func has been called once more than it has ended while it is running *)
FuncCalls == Len(attempts) + (IF retryPc = "running" THEN 1 ELSE 0)

CallsOf(hook) == {k \in 1..Len(reporterCalls) : reporterCalls[k].hook = hook}

(* lookup i fails with not-found: its callback is fulfilled without a      *)
(* payload                                                                 *)
NotFoundStep(i) ==
    /\ lookups[i].status = "pending"
    /\ lookups'[i].status = "fulfilled"
    /\ Len(overriddenTestsToTrigger') = Len(overriddenTestsToTrigger)

C20_NotFoundReported ==
    [][(rejection = Null /\ rejection' = Null) =>
         /\ \A i \in 1..Len(lookups) :
               NotFoundStep(i) =>
                  /\ lookups[i].id \in summary'.testsNotFound
                  /\ Len(errorMessages') = Len(errorMessages) + 1
                  /\ errorMessages'[Len(errorMessages')].id = lookups[i].id
                  /\ SubSeq(errorMessages', 1, Len(errorMessages)) = errorMessages
         /\ (\A i \in 1..Len(lookups) : ~NotFoundStep(i)) =>
               (errorMessages' = errorMessages
                /\ (summary # Null => summary'.testsNotFound = summary.testsNotFound))
         /\ CallsOf("initErrors")' # CallsOf("initErrors") =>
               /\ CallsOf("initErrors") = {}
               /\ Cardinality(CallsOf("initErrors")') = 1
               /\ CallsOf("testsWait") = {}
               /\ \A i \in 1..Len(lookups) : lookups[i].status = "fulfilled"
               /\ \A k \in CallsOf("initErrors")' :
                     /\ reporterCalls'[k].args = <<errorMessages>>
                     /\ \A j \in CallsOf("testsWait")' : k < j
         /\ lookupPc' \in {"done", "thrown"} => Cardinality(CallsOf("initErrors")') = 1]_vars

C20_Witness ==
    /\ lookupPc = "done"
    /\ rejection = Null
    /\ Len(errorMessages) = 1
    /\ Cardinality(CallsOf("initErrors")) = 1
    /\ Cardinality(CallsOf("testsWait")) = 1
    /\ Len(lookups) = MaxConfigs

(***************************************************************************)
(* C21: getTestsToTrigger raises the error 'No tests to trigger' if and    *)
(* only if no payload remains once all lookups have settled, that is when  *)
(* every lookup was not-found or there was no trigger config; when a       *)
(* lookup succeeded and the others were not-found it returns normally.     *)
(* initErrors has been invoked before the error is raised.                 *)
(***************************************************************************)
NoTestsToTrigger == [name |-> "Error", message |-> "No tests to trigger"]

(* one error message is accumulated per not-found lookup *)
AllNotFound == Len(errorMessages) = Len(lookups)

C21_NoTestsToTrigger ==
    /\ lookupThrown = NoTestsToTrigger =>
          /\ lookupPc = "thrown"
          /\ AllFulfilled
          /\ Len(overriddenTestsToTrigger) = 0
          /\ AllNotFound
          /\ reporterCalls # <<>>
          /\ reporterCalls[Len(reporterCalls)] = Call("initErrors", <<errorMessages>>)
    /\ (lookupPc \in {"done", "thrown"} /\ rejection = Null) =>
          /\ AllFulfilled
          /\ lookupPc = "thrown" <=> Len(overriddenTestsToTrigger) = 0
          /\ lookupPc = "thrown" <=> AllNotFound
          /\ lookupPc = "thrown" <=> lookupThrown = NoTestsToTrigger
          /\ lookupPc = "done" <=> lookupReturned # Null
    /\ (lookupPc = "thrown" /\ rejection # Null) => lookupThrown = rejection

C21_Witness ==
    /\ lookupThrown = NoTestsToTrigger
    /\ Len(lookups) = MaxConfigs
    /\ Len(errorMessages) = MaxConfigs
    /\ Cardinality(CallsOf("initErrors")) = 1

(***************************************************************************)
(* C22: after getTestsToTrigger returns, when getTest has answered         *)
(* consistently for each identifier, summary.testsNotFound is disjoint     *)
(* from the public_ids of the payloads to submit and from the identifiers  *)
(* of the returned tests to wait for.                                      *)
(***************************************************************************)
LookupsOf(id) == {i \in 1..Len(lookups) : lookups[i].id = id}

MessagesOf(id) == {k \in 1..Len(errorMessages) : errorMessages[k].id = id}

(* the lookups of an identifier were all not-found, or none of them was *)
ConsistentAnswers ==
    \A i \in 1..Len(lookups) :
       Cardinality(MessagesOf(lookups[i].id)) \in {0, Cardinality(LookupsOf(lookups[i].id))}

C22_NotFoundDisjoint ==
    (lookupPc = "done" /\ ConsistentAnswers) =>
       /\ \A k \in 1..Len(lookupReturned.overriddenTestsToTrigger) :
             lookupReturned.overriddenTestsToTrigger[k].public_id
                \notin lookupReturned.summary.testsNotFound
       /\ \A k \in 1..Len(lookupReturned.tests) :
             lookupReturned.tests[k].public_id \notin lookupReturned.summary.testsNotFound

C22_Witness ==
    /\ lookupPc = "done"
    /\ ConsistentAnswers
    /\ lookupReturned.summary.testsNotFound # {}
    /\ Len(lookupReturned.tests) > 0
    /\ lookupConfigs[1].id = LongIdA

(***************************************************************************)
(* C29: in getTestsToTrigger, for every order in which the parallel        *)
(* lookups complete and whichever of them fail with not-found, the payload *)
(* list holds exactly one payload per trigger config whose lookup          *)
(* succeeded and none for a not-found one, summary.skipped is the number   *)
(* of found tests resolved as skipped, and the returned tests to wait for  *)
(* are exactly the found tests that are not skipped, in trigger-config     *)
(* order: a not-found lookup neither cancels nor alters its siblings.      *)
(***************************************************************************)
PayloadsOf(id) ==
    {k \in 1..Len(overriddenTestsToTrigger) : overriddenTestsToTrigger[k].public_id = id}

SkippedPayloads ==
    {k \in 1..Len(overriddenTestsToTrigger) :
        overriddenTestsToTrigger[k].executionRule = "skipped"}

(* the lookups that returned a test to wait for, and the place of each in  *)
(* trigger-config order                                                    *)
Waited == {i \in 1..Len(lookups) : lookups[i].value # Undefined}

PlaceOf(i) == Cardinality({j \in Waited : j <= i})

C29_SiblingsUnaffected ==
    (lookupPc = "done" /\ rejection = Null) =>
       /\ AllFulfilled
       /\ Len(lookups) = Len(lookupConfigs)
       /\ \A i \in 1..Len(lookups) :
             Cardinality(PayloadsOf(lookups[i].id))
                = Cardinality(LookupsOf(lookups[i].id)) - Cardinality(MessagesOf(lookups[i].id))
       /\ Len(overriddenTestsToTrigger) = Len(lookups) - Len(errorMessages)
       /\ lookupReturned.overriddenTestsToTrigger = overriddenTestsToTrigger
       /\ lookupReturned.summary.skipped = Cardinality(SkippedPayloads)
       /\ Len(lookupReturned.tests) = Len(overriddenTestsToTrigger) - Cardinality(SkippedPayloads)
       /\ Len(lookupReturned.tests) = Cardinality(Waited)
       /\ \A i \in Waited :
             /\ lookupReturned.tests[PlaceOf(i)] = lookups[i].value[1]
             /\ lookupReturned.tests[PlaceOf(i)].public_id = NormalizePublicId(lookupConfigs[i].id)

C29_Witness ==
    /\ lookupPc = "done"
    /\ rejection = Null
    /\ Len(lookups) = MaxConfigs
    /\ Len(errorMessages) = 1
    /\ errorMessages[1].id = lookups[1].id
    /\ PayloadsOf(lookups[1].id) = {}
    /\ Len(lookupReturned.tests) = MaxConfigs - 1
    /\ lookupReturned.summary.skipped = 0

(***************************************************************************)
(* C23: runTests issues exactly one triggerTests request, carrying all the *)
(* payloads and metadata whose trigger_app is the value last set by        *)
(* setCiTriggerApp, or 'npm_package' if it was never set; any failure of   *)
(* that request, with or without an HTTP response, is rethrown as a single *)
(* EndpointError whose message names all the submitted public ids and      *)
(* which carries the HTTP status when there is one.                        *)
(***************************************************************************)
(* the text of id is in message from position at on *)
NamedAt(message, id, at) ==
    /\ at + Len(id) - 1 <= Len(message)
    /\ SubSeq(message, at, at + Len(id) - 1) = id

C23_SingleRequest ==
    /\ [](runPc = "start" => triggerRequests = <<>>)
    /\ [](runPc \in {"triggering", "done", "thrown"} =>
             (/\ Len(triggerRequests) = 1
              /\ triggerRequests[1].tests = testsToTrigger))
    /\ [][triggerRequests' # triggerRequests =>
             triggerRequests'[1].metadata.trigger_app = ciTriggerApp]_vars
    /\ [](runPc = "thrown" =>
             (/\ runThrown.name = "EndpointError"
              /\ runThrown.status \in {e.response[1].status :
                                        e \in {x \in TriggerErrors : x.response # Undefined}}
              /\ \A i \in 1..Len(testsToTrigger) :
                    \E at \in 1..Len(runThrown.message) :
                       NamedAt(runThrown.message, testsToTrigger[i].public_id, at)))


(***************************************************************************)
(* C24: getUserGitMetadata reads a DD_GIT_BRANCH that starts with          *)
(* refs/tags/, origin/tags/ or refs/heads/tags/ as a tag: the metadata     *)
(* carry the normalised ref as the git tag and no git branch.  Any other   *)
(* DD_GIT_BRANCH, with DD_GIT_TAG unset, yields a git branch and no tag.   *)
(***************************************************************************)
TagPrefixes == {<<"r", "e", "f", "s", "/", "t", "a", "g", "s", "/">>, <<"o", "r", "i", "g", "i", "n", "/", "t", "a", "g", "s", "/">>, <<"r", "e", "f", "s", "/", "h", "e", "a", "d", "s", "/", "t", "a", "g", "s", "/">>}

PrefixedAsTag(ref) == \E prefix \in TagPrefixes : StartsWith(ref, prefix)

HasKey(object, key) == key \in DOMAIN object

C24_TagRefs ==
    (gitMetadata # Undefined /\ env.DD_GIT_BRANCH # Undefined) =>
        LET ref == env.DD_GIT_BRANCH[1]
            out == gitMetadata[1]
        IN  /\ PrefixedAsTag(ref) =>
                /\ HasKey(out, "git_tag")
                /\ Some(out.git_tag) = normalizeRef(env.DD_GIT_BRANCH)
                /\ ~HasKey(out, "git_branch")
            /\ (~PrefixedAsTag(ref) /\ ref # <<>> /\ env.DD_GIT_TAG = Undefined) =>
                /\ HasKey(out, "git_branch")
                /\ ~HasKey(out, "git_tag")


(***************************************************************************)
(* C25: when handleConfig renders a startUrl and the URL of the test       *)
(* parses, every reserved key (URL, DOMAIN, SUBDOMAIN, HOST, HOSTNAME,     *)
(* ORIGIN, PROTOCOL, PORT, PATHNAME, PARAMS, HASH) that the process        *)
(* environment defines is warned about through the reporter, and the       *)
(* rendering is the one of an environment without that key: the value      *)
(* derived from the URL is substituted, never the environment's.           *)
(***************************************************************************)
ReservedKeys == Range(URL_VARIABLES) \cup {<<"U", "R", "L">>}

Rendered ==
    /\ handled # Undefined
    /\ urlConfig # Undefined
    /\ HasKey(urlConfig[1], "startUrl")
    /\ HasKey(handled[1], "startUrl")

Without(context, name) == SelectSeq(context, LAMBDA entry : entry.name # name)

WarnedAbout(name) ==
    \E i \in 1..Len(configCalls) :
        /\ configCalls[i].hook = "log"
        /\ Includes(configCalls[i].args.names, name)

C25_ReservedKeys ==
    (Rendered /\ NewURL(urlTest.config.request.url) # Undefined) =>
        \A key \in ReservedKeys :
            ContextHas(processEnv, key) =>
                /\ WarnedAbout(key)
                /\ handled[1].startUrl =
                       template(urlConfig[1].startUrl,
                                parseUrlVariables(urlTest.config.request.url,
                                                  Without(processEnv, key)).context)


(***************************************************************************)
(* C26: a placeholder {{ NAME }} of the startUrl whose NAME has no defined *)
(* value in the context (the environment merged with the keys derived      *)
(* from the URL of the test, SUBDOMAIN of a host without subdomain among   *)
(* them) is left verbatim in the rendered startUrl, and a startUrl none of *)
(* whose placeholders is defined is rendered equal to itself.              *)
(***************************************************************************)
RECURSIVE Placeholders(_)
Placeholders(st) ==
    IF st = <<>> THEN <<>>
    ELSE IF MatchEnd(st) = 0 THEN Placeholders(Tail(st))
    ELSE <<[match |-> SubSeq(st, 1, MatchEnd(st)), name |-> MatchName(st, MatchEnd(st))]>>
         \o Placeholders(SubSeq(st, MatchEnd(st) + 1, Len(st)))

DefinedIn(context, name) == ContextHas(context, name) /\ ContextGet(context, name) # Undefined

LookupContext == parseUrlVariables(urlTest.config.request.url, processEnv).context

UndefinedPlaceholders ==
    {p \in Range(Placeholders(urlConfig[1].startUrl)) : ~DefinedIn(LookupContext, p.name)}

C26_UnresolvedVerbatim ==
    Rendered =>
        /\ \A p \in UndefinedPlaceholders : Includes(handled[1].startUrl, p.match)
        /\ UndefinedPlaceholders = Range(Placeholders(urlConfig[1].startUrl)) =>
               handled[1].startUrl = urlConfig[1].startUrl


(***************************************************************************)
(* C30: waitForResults never requests a poll with an empty list of result  *)
(* ids: a poll is requested only while a trigger-result is still pending   *)
(* after the timeout and tunnel steps of the iteration.                    *)
(***************************************************************************)
C30_NoEmptyPoll ==
    [][PollRequest => (triggerResultsSucceed' # <<>> /\ Pending(triggerResults) # {})]_vars


(***************************************************************************)
(* C27: in an iteration of the loop the timeout step runs before the       *)
(* tunnel step and before the poll: a trigger result that is pending when  *)
(* the iteration starts, with an elapsed time of at least its              *)
(* pollingTimeout, gets the TIMEOUT result and keeps it to the end of the  *)
(* iteration, whatever the tunnel does and whatever the poll of the        *)
(* iteration answers, and its id is not in the poll request of the         *)
(* iteration.                                                              *)
(***************************************************************************)
(* the function is in the iteration that measured pollingDuration, past    *)
(* the timeout step                                                        *)
InIteration == pc \in {"tunnel", "deadline", "poll", "polling"}

(* timed out by the timeout step of this iteration: the iteration before   *)
(* was POLLING_INTERVAL earlier, or more                                   *)
JustTimedOut(tr) ==
    /\ IsSynthesised(tr, ERRORS.TIMEOUT)
    /\ pollingDuration - POLLING_INTERVAL < tr.pollingTimeout

C27_TimeoutFirst ==
    [][/\ TimeoutStep =>
              \A i \in Pending(triggerResults) :
                  pollingDuration >= triggerResults[i].pollingTimeout =>
                      IsSynthesised(triggerResults'[i], ERRORS.TIMEOUT)
       /\ InIteration =>
              \A i \in 1..Len(triggerResults) :
                  JustTimedOut(triggerResults[i]) =>
                      triggerResults'[i].result = triggerResults[i].result
       /\ PollRequest =>
              \A i \in 1..Len(triggerResults) :
                  JustTimedOut(triggerResults[i]) =>
                      triggerResults[i].result_id \notin Range(triggerResultsSucceed')]_vars


(***************************************************************************)
(* C28: a poll result whose eventType is not 'finished', and an id that    *)
(* the poll response does not contain, never make a trigger result         *)
(* terminal.  A pending trigger result becomes terminal only by a finished *)
(* poll result for its id, by its timeout, by a tunnel drop or by a        *)
(* swallowed 5xx error; until then it stays pending and every poll         *)
(* requests its id.                                                        *)
(***************************************************************************)
FinishedFor(tr) ==
    /\ IsPolled(tr)
    /\ tr.result.resultID = tr.result_id
    /\ tr.result.result.eventType = "finished"

C28_StaysPending ==
    [][\A i \in Pending(triggerResults) :
          /\ Terminal(triggerResults'[i]) =>
                \/ /\ pc = "polling"
                   /\ pollError' = pollError
                   /\ FinishedFor(triggerResults'[i])
                \/ /\ pc = "timeout"
                   /\ pollingDuration >= triggerResults[i].pollingTimeout
                   /\ IsSynthesised(triggerResults'[i], ERRORS.TIMEOUT)
                \/ /\ pc = "tunnel"
                   /\ tunnel /\ ~isTunnelConnected
                   /\ IsSynthesised(triggerResults'[i], ERRORS.TUNNEL)
                \/ /\ pc = "polling"
                   /\ pollError' # Null /\ is5xxError(pollError') /\ ~failOnCriticalErrors
                   /\ IsSynthesised(triggerResults'[i], ERRORS.ENDPOINT)
          /\ pc = "poll" => triggerResults[i].result_id \in Range(triggerResultsSucceed')]_vars

(* a trigger result that an answered poll left pending is requested again *)
C28_Witness ==
    /\ pc = "polling"
    /\ lastPollEnd # Undefined
    /\ pollError = Null
    /\ \E i \in Pending(triggerResults) :
          triggerResults[i].result_id \in Range(triggerResultsSucceed)


(***************************************************************************)
(* C31: a result synthesised by waitForResults with error TUNNEL is        *)
(* classified as failed by hasResultPassed for every combination of        *)
(* failOnCriticalErrors and failOnTimeout, so the results that             *)
(* waitForResults returns for a test, when a TUNNEL result is among them,  *)
(* fail hasTestSucceeded whatever the policy.                              *)
(***************************************************************************)
HasTunnelResult(results) ==
    \E k \in 1..Len(results) : ObjGet(results[k].result, "error") = Some(ERRORS.TUNNEL)

C31_TunnelFails ==
    /\ \A i \in 1..Len(triggerResults) :
          IsSynthesised(triggerResults[i], ERRORS.TUNNEL) =>
              \A q \in Policies :
                  ~hasResultPassed(triggerResults[i].result.result, q.failOnCriticalErrors,
                                   q.failOnTimeout)
    /\ pc = "done" =>
          \A id \in DOMAIN returned :
              HasTunnelResult(returned[id]) =>
                  \A q \in Policies :
                      ~hasTestSucceeded(returned[id], q.failOnCriticalErrors, q.failOnTimeout)

(* waitForResults returned a TUNNEL result among the results of a test *)
C31_Witness ==
    /\ pc = "done"
    /\ \E i \in 1..Len(triggerResults) : IsSynthesised(triggerResults[i], ERRORS.TUNNEL)
    /\ \E id \in DOMAIN returned : HasTunnelResult(returned[id])


(***************************************************************************)
(* C32: whatever DD_GIT_BRANCH and DD_GIT_TAG are (unset, empty or not     *)
(* empty), the metadata that getUserGitMetadata returns never carry both a *)
(* git branch and a git tag, and carry no git branch when DD_GIT_TAG is    *)
(* not empty.                                                              *)
(***************************************************************************)
NonEmpty(value) == value # Undefined /\ value # Some(<<>>)

C32_BranchOrTag ==
    gitMetadata # Undefined =>
        /\ ~(HasKey(gitMetadata[1], "git_branch") /\ HasKey(gitMetadata[1], "git_tag"))
        /\ NonEmpty(env.DD_GIT_TAG) => ~HasKey(gitMetadata[1], "git_branch")

(* both variables are set and only the tag is returned *)
C32_Witness ==
    /\ gitMetadata # Undefined
    /\ NonEmpty(env.DD_GIT_TAG)
    /\ NonEmpty(env.DD_GIT_BRANCH)
    /\ HasKey(gitMetadata[1], "git_tag")
    /\ ~HasKey(gitMetadata[1], "git_branch")

====
